---- MODULE Spec2Model ----
(***************************************************************************)
(* Model of lariat's find-expression builder (models/symbolic.py) and of   *)
(* the QueryCompiler (models/query_compiler.py) that turns a Q tree into   *)
(* a FileMaker "-findquery" directive string and its parameter mapping.    *)
(*                                                                         *)
(* Q objects live in a heap (they are mutable Python objects with          *)
(* identity); literals (FindOpExpression, RawFindExpression) are compared  *)
(* and hashed structurally and are never mutated, so they are values.      *)
(***************************************************************************)
EXTENDS Integers, Sequences, FiniteSets, TLC

VARIABLES heap, exprs, compilers, results, threads, staged

vars == <<heap, exprs, compilers, results, threads, staged>>

(***************************************************************************)
(* Bounds of the model.                                                    *)
(***************************************************************************)
\* expressions the caller holds, compiler instances, compile calls
MaxExprs == 2
MaxCompilers == 1
MaxCompiles == 2
\* literal occurrences in an expression the caller builds
MaxLeaves == 6
\* threads that call compile at the same time
MaxThreads == 2
\* applications of a single stage of the compiler to a held expression
MaxStaged == 1
\* successive applications of invert_op, each to the result of the one before
MaxInversions == 2
\* expressions the caller builds with & and | from two operands it holds
MaxCombined == 1
\* group objects in the heap while distribute runs
MaxHeap == 100

(***************************************************************************)
(* Fields and literals.                                                    *)
(***************************************************************************)
AND == "AND"
OR == "OR"

\* A field handle is a value: two handles are equal when their class and
\* name are, so a deep copy of a literal equals the literal it was copied from.
Field(cls, name) == [cls |-> cls, name |-> name]

NameField == Field("StringField", "Name")
AgeField == Field("IntField", "Age")
CityField == Field("StringField", "City")

\* escape_find_value: the characters that get a backslash, in the order of
\* the list (the backslash first)
escape_chars == <<"\\", "=", ">", "<", "!", "*", "?", "@", "#", "\"", "\n", "\r", "\t">>

\* str.replace(ch, "\\" + ch)
RECURSIVE Replace(_, _)
Replace(value, ch) ==
    IF Len(value) = 0 THEN ""
    ELSE (IF SubSeq(value, 1, 1) = ch THEN "\\" \o ch ELSE SubSeq(value, 1, 1))
            \o Replace(SubSeq(value, 2, Len(value)), ch)

\* the loop of escape_find_value from the i-th character of escape_chars on
RECURSIVE EscapeFrom(_, _)
EscapeFrom(value, i) ==
    IF i > Len(escape_chars) THEN value
    ELSE EscapeFrom(Replace(value, escape_chars[i]), i + 1)

\* escape_find_value(value); the values of the model are text
escape_find_value(value) == EscapeFrom(value, 1)

\* FindOpExpression(lhs, op, rhs): __init__ stores the escaped rhs
FindOpExpression(lhs, op, rhs) ==
    [t |-> "op", lhs |-> lhs, op |-> op, rhs |-> escape_find_value(rhs)]

\* the comparison with the field and the value of e and the operator op
WithOp(e, op) == [e EXCEPT !.op = op]

\* RawFindExpression(field, query)
RawFindExpression(field, query) == [t |-> "raw", field |-> field, query |-> query]

IsQ(r) == r.t = "q"
IsFindOp(r) == r.t = "op"
IsRaw(r) == r.t = "raw"

\* Field.to_filemaker: the value handed to the compiler is serialised text.
to_filemaker(field, rhs) == rhs

\* The literals the modelled caller uses.
LitA == FindOpExpression(NameField, "eq", "A")
LitG == FindOpExpression(AgeField, "gt", "30")
LitN == FindOpExpression(AgeField, "neq", "10")
LitC == FindOpExpression(CityField, "cn", "B")
LitR == RawFindExpression(CityField, "==B")

Lits == {LitA, LitG, LitN, LitC, LitR}

\* the operator tokens named by FindOpExpression.OP_T
OP_T == {"eq", "cn", "bw", "ew", "gt", "gte", "lt", "lte", "neq"}

\* FindOpExpression(Person.name._field, "like", "A"): __init__ tests that op
\* is a string and nothing else about it, so this literal is constructed
LitX == FindOpExpression(NameField, "like", "A")

\* Literals over a value with a character of escape_chars:
\* Person.name > "a=b" and Person.city.not_has_word("a=b")
LitS == FindOpExpression(NameField, "gt", "a=b")
LitT == FindOpExpression(CityField, "neq", "a=b")

SpecialLits == {LitS, LitT}

(***************************************************************************)
(* repr() of literals and Python's string order, used by                   *)
(* sorted(group["neg"], key=repr).                                         *)
(***************************************************************************)
\* The characters that occur in a repr, in code point order.
Alphabet == " '0123456789<=>@ABCDEFGHIJKLMNOPQRSTUVWXYZ\\abcdefghijklmnopqrstuvwxyz"

Ord(c) == CHOOSE i \in 1..Len(Alphabet) : SubSeq(Alphabet, i, i) = c

FieldRepr(f) == "<" \o f.cls \o " '" \o f.name \o "'>"

\* repr() of a str: quoted, every backslash doubled
StrRepr(v) == "'" \o Replace(v, "\\") \o "'"

ValueRepr(f, v) == IF f.cls = "StringField" THEN StrRepr(v) ELSE v

Repr(e) ==
    IF IsFindOp(e)
    THEN "<FindOpExpression " \o FieldRepr(e.lhs) \o " " \o e.op \o " "
            \o ValueRepr(e.lhs, e.rhs) \o ">"
    ELSE "<RawFindExpression " \o FieldRepr(e.field) \o " @ " \o StrRepr(e.query) \o ">"

RECURSIVE StrLessFrom(_, _, _)
StrLessFrom(s, u, i) ==
    IF i > Len(u) THEN FALSE
    ELSE IF i > Len(s) THEN TRUE
    ELSE LET a == Ord(SubSeq(s, i, i))
             b == Ord(SubSeq(u, i, i))
         IN IF a # b THEN a < b ELSE StrLessFrom(s, u, i + 1)

StrLess(s, u) == StrLessFrom(s, u, 1)

\* sorted(S, key=repr) for a set S of literals with pairwise distinct reprs
RECURSIVE SortedByRepr(_)
SortedByRepr(S) ==
    IF S = {} THEN <<>>
    ELSE LET Rest(m) == <<m>> \o SortedByRepr(S \ {m})
         IN Rest(CHOOSE x \in S : \A y \in S \ {x} : StrLess(Repr(x), Repr(y)))

(***************************************************************************)
(* The heap of Q objects.                                                  *)
(***************************************************************************)
QRef(id) == [t |-> "q", id |-> id]

QNode(children, connector, negated) ==
    [children |-> children, connector |-> connector, negated |-> negated]

\* Q.__init__: a new object; the result is the new heap and the reference
QNew(h, children, connector, negated) ==
    [h |-> Append(h, QNode(children, connector, negated)), r |-> QRef(Len(h) + 1)]

\* copy.deepcopy of a literal or of a Q with everything below it
RECURSIVE DeepCopy(_, _), DeepCopyAll(_, _)
DeepCopy(h, r) ==
    IF ~IsQ(r) THEN [h |-> h, r |-> r]
    ELSE LET cs == DeepCopyAll(h, h[r.id].children)
         IN QNew(cs.h, cs.rs, h[r.id].connector, h[r.id].negated)

DeepCopyAll(h, rs) ==
    IF rs = <<>> THEN [h |-> h, rs |-> <<>>]
    ELSE LET first == DeepCopy(h, Head(rs))
             rest == DeepCopyAll(first.h, Tail(rs))
         IN [h |-> rest.h, rs |-> <<first.r>> \o rest.rs]

\* The value of the expression below a reference: what the caller can observe
RECURSIVE TreeOf(_, _)
TreeOf(h, r) ==
    IF ~IsQ(r) THEN r
    ELSE [t |-> "q", connector |-> h[r.id].connector, negated |-> h[r.id].negated,
          children |-> [i \in DOMAIN h[r.id].children |-> TreeOf(h, h[r.id].children[i])]]

(***************************************************************************)
(* The builder operations of symbolic.py.                                  *)
(***************************************************************************)
\* _combine extending self itself instead of a copy of it
_combine_in_place(h, self, other, connector) ==
    LET o == IF IsQ(other) THEN [h |-> h, r |-> other]
             ELSE QNew(h, <<other>>, AND, FALSE)
    IN IF o.h[self.id].connector = connector /\ ~o.h[self.id].negated
       THEN LET oth == o.h[o.r.id]
                children == IF oth.connector = connector /\ ~oth.negated
                            THEN o.h[self.id].children \o oth.children
                            ELSE Append(o.h[self.id].children, o.r)
            IN [h |-> [o.h EXCEPT ![self.id].children = children], r |-> self]
       ELSE QNew(o.h, <<self, o.r>>, connector, FALSE)

\* _combine making a new group of self and other whatever self is
_combine_two_children(h, self, other, connector) ==
    LET With(o) == QNew(o.h, <<self, o.r>>, connector, FALSE)
    IN With(IF IsQ(other) THEN [h |-> h, r |-> other] ELSE QNew(h, <<other>>, AND, FALSE))

\* Q._combine(self, other, connector), self a Q; o is other, wrapped in a Q
\* if it is a literal, obj is the deep copy of self
_combine(h, self, other, connector) ==
    LET Extend(o, obj) ==
            LET oth == obj.h[o.r.id]
                children == IF oth.connector = connector /\ ~oth.negated
                            THEN obj.h[obj.r.id].children \o oth.children
                            ELSE Append(obj.h[obj.r.id].children, o.r)
            IN [h |-> [obj.h EXCEPT ![obj.r.id].children = children], r |-> obj.r]
        With(o) ==
            IF o.h[self.id].connector = connector /\ ~o.h[self.id].negated
            THEN Extend(o, DeepCopy(o.h, self))
            ELSE QNew(o.h, <<self, o.r>>, connector, FALSE)
    IN With(IF IsQ(other) THEN [h |-> h, r |-> other] ELSE QNew(h, <<other>>, AND, FALSE))

\* __invert__ setting the flag instead of toggling it
Q_invert_set(h, self) ==
    LET obj == DeepCopy(h, self)
    IN [h |-> [obj.h EXCEPT ![obj.r.id].negated = TRUE], r |-> obj.r]

\* Q.__invert__; obj is the deep copy of self
Q_invert(h, self) ==
    LET Toggle(obj) ==
            [h |-> [obj.h EXCEPT ![obj.r.id].negated = ~obj.h[obj.r.id].negated],
             r |-> obj.r]
    IN Toggle(DeepCopy(h, self))

\* a | b and a & b: Q.__or__/__and__, and for a literal a, Q(a) | b
Combine(h, a, b, connector) ==
    IF IsQ(a) THEN _combine(h, a, b, connector)
    ELSE LET OfQ(w) == _combine(w.h, w.r, b, connector)
         IN OfQ(QNew(h, <<a>>, AND, FALSE))

\* ~a: Q.__invert__, and for a literal a, ~Q(a)
Invert(h, a) ==
    IF IsQ(a) THEN Q_invert(h, a)
    ELSE LET OfQ(w) == Q_invert(w.h, w.r)
         IN OfQ(QNew(h, <<a>>, AND, FALSE))

(***************************************************************************)
(* QueryCompiler: the normalisation stages.                                *)
(***************************************************************************)
RECURSIVE push_negations(_, _), PushChildren(_, _, _)

\* push_negations negating the children without flipping the connector
push_negations_same_connector(h, q) ==
    IF ~IsQ(q) THEN [h |-> h, r |-> q]
    ELSE LET cs == PushChildren(h, h[q.id].children, h[q.id].negated)
         IN QNew(cs.h, cs.rs, h[q.id].connector, FALSE)

\* push_negations handing back its argument instead of a rebuilt tree
push_negations_returns_argument(h, q) == [h |-> h, r |-> q]

\* QueryCompiler.push_negations
push_negations(h, q) ==
    IF ~IsQ(q) THEN [h |-> h, r |-> q]
    ELSE LET cs == PushChildren(h, h[q.id].children, h[q.id].negated)
         IN QNew(cs.h, cs.rs,
                 IF h[q.id].negated THEN IF h[q.id].connector = AND THEN OR ELSE AND
                 ELSE h[q.id].connector,
                 FALSE)

\* the loops of push_negations toggling a child group without pushing the
\* negation into it
RECURSIVE PushChildren_not_into_groups(_, _, _)
PushChildren_not_into_groups(h, rs, negate) ==
    IF rs = <<>> THEN [h |-> h, rs |-> <<>>]
    ELSE LET child == Head(rs)
             first == IF IsQ(child)
                      THEN IF negate THEN Q_invert(h, child)
                           ELSE push_negations(h, child)
                      ELSE IF negate THEN QNew(h, <<child>>, AND, TRUE)
                           ELSE [h |-> h, r |-> child]
             rest == PushChildren_not_into_groups(first.h, Tail(rs), negate)
         IN [h |-> rest.h, rs |-> <<first.r>> \o rest.rs]

\* the loops over q.children of push_negations (negate = the parent is negated)
PushChildren(h, rs, negate) ==
    IF rs = <<>> THEN [h |-> h, rs |-> <<>>]
    ELSE LET child == Head(rs)
             Pushed(new_child) == push_negations(new_child.h, new_child.r)
             first == IF IsQ(child)
                      THEN IF negate THEN Pushed(Q_invert(h, child))
                           ELSE push_negations(h, child)
                      ELSE IF negate THEN QNew(h, <<child>>, AND, TRUE)
                           ELSE [h |-> h, r |-> child]
             rest == PushChildren(first.h, Tail(rs), negate)
         IN [h |-> rest.h, rs |-> <<first.r>> \o rest.rs]

\* the scan for an OR child finding none
FirstOrChild_none(h, children, i) == 0

\* index of the first child that is a Q with connector OR, 0 if there is none
RECURSIVE FirstOrChild(_, _, _)
FirstOrChild(h, children, i) ==
    IF i > Len(children) THEN 0
    ELSE IF IsQ(children[i]) /\ h[children[i].id].connector = OR THEN i
    ELSE FirstOrChild(h, children, i + 1)

\* QueryCompiler.distribute; it assigns q.children in place
RECURSIVE distribute(_, _), DistributeAll(_, _), DistributeItems(_, _, _)
distribute(h, q) ==
    IF ~IsQ(q) THEN [h |-> h, r |-> q]
    ELSE LET cs == DistributeAll(h, h[q.id].children)
             h1 == [cs.h EXCEPT ![q.id].children = cs.rs]
             or_child_idx == IF h1[q.id].connector = AND
                             THEN FirstOrChild(h1, h1[q.id].children, 1) ELSE 0
         IN IF or_child_idx # 0
            THEN LET children == h1[q.id].children
                     or_child == children[or_child_idx]
                     others == SubSeq(children, 1, or_child_idx - 1)
                                  \o SubSeq(children, or_child_idx + 1, Len(children))
                     new_or_children == DistributeItems(h1, h1[or_child.id].children, others)
                 IN QNew(new_or_children.h, new_or_children.rs, OR, FALSE)
            ELSE [h |-> h1, r |-> q]

DistributeAll(h, rs) ==
    IF rs = <<>> THEN [h |-> h, rs |-> <<>>]
    ELSE LET first == distribute(h, Head(rs))
             rest == DistributeAll(first.h, Tail(rs))
         IN [h |-> rest.h, rs |-> <<first.r>> \o rest.rs]

DistributeItems(h, items, others) ==
    IF items = <<>> THEN [h |-> h, rs |-> <<>>]
    ELSE LET new_and == QNew(h, <<Head(items)>> \o others, AND, FALSE)
             first == distribute(new_and.h, new_and.r)
             rest == DistributeItems(first.h, Tail(items), others)
         IN [h |-> rest.h, rs |-> <<first.r>> \o rest.rs]

\* QueryCompiler.flatten
RECURSIVE flatten(_, _), FlattenChildren(_, _, _)
flatten(h, q) ==
    IF ~IsQ(q) THEN [h |-> h, r |-> q]
    ELSE LET new_children == FlattenChildren(h, h[q.id].children, h[q.id].connector)
         IN QNew(new_children.h, new_children.rs, h[q.id].connector, h[q.id].negated)

FlattenChildren(h, rs, connector) ==
    IF rs = <<>> THEN [h |-> h, rs |-> <<>>]
    ELSE LET child == IF IsQ(Head(rs)) THEN flatten(h, Head(rs)) ELSE [h |-> h, r |-> Head(rs)]
             part == IF IsQ(child.r) /\ child.h[child.r.id].connector = connector
                                     /\ ~child.h[child.r.id].negated
                     THEN child.h[child.r.id].children
                     ELSE <<child.r>>
             rest == FlattenChildren(child.h, Tail(rs), connector)
         IN [h |-> rest.h, rs |-> part \o rest.rs]

\* QueryCompiler.to_dnf
to_dnf(h, q) ==
    IF ~IsQ(q) THEN [h |-> h, r |-> q]
    ELSE LET Distributed(pushed) == distribute(pushed.h, pushed.r)
             Flattened(distributed) == flatten(distributed.h, distributed.r)
         IN Flattened(Distributed(push_negations(h, q)))

(***************************************************************************)
(* QueryCompiler: instance state, add_param, invert_op.                     *)
(***************************************************************************)
None == [t |-> "none"]

NoParams == [k \in {} |-> ""]

\* QueryCompiler.__init__
NewQueryCompiler == [params |-> NoParams, counter |-> 0]

\* dict item assignment d[k] = v
SetItem(d, k, v) == (k :> v) @@ d

\* QueryCompiler.invert_op
invert_op(expr) ==
    CASE expr.op = "neq" -> FindOpExpression(expr.lhs, "eq", expr.rhs)
      [] expr.op = "gt" -> FindOpExpression(expr.lhs, "lte", expr.rhs)
      [] expr.op = "gte" -> FindOpExpression(expr.lhs, "lt", expr.rhs)
      [] expr.op = "lt" -> FindOpExpression(expr.lhs, "gte", expr.rhs)
      [] expr.op = "lte" -> FindOpExpression(expr.lhs, "gt", expr.rhs)
      [] OTHER -> None

\* ---- the encoding of emitted values ----

\* op_format with the formats of bw and ew exchanged
op_format_bw_ew_exchanged(op, value) ==
    CASE op = "eq" -> "=" \o value
      [] op = "cn" -> "*" \o value \o "*"
      [] op = "bw" -> "*" \o value
      [] op = "ew" -> value \o "*"
      [] op = "gt" -> ">" \o value
      [] op = "gte" -> ">=" \o value
      [] op = "lt" -> "<" \o value
      [] op = "lte" -> "<=" \o value

\* the keys of op_map in add_param
op_map_keys == {"eq", "cn", "bw", "ew", "gt", "gte", "lt", "lte"}

\* op_map of add_param applied to the value: prefix or format
op_format(op, value) ==
    CASE op = "eq" -> "=" \o value
      [] op = "cn" -> "*" \o value \o "*"
      [] op = "bw" -> value \o "*"
      [] op = "ew" -> "*" \o value
      [] op = "gt" -> ">" \o value
      [] op = "gte" -> ">=" \o value
      [] op = "lt" -> "<" \o value
      [] op = "lte" -> "<=" \o value

\* QueryCompiler._get_id: the compiler after the call
_get_id(c) == [c EXCEPT !.counter = c.counter + 1]

qid_of(c) == "q" \o ToString(c.counter)

\* QueryCompiler.add_param(q_ids, expr); c1 is the compiler after _get_id
add_param(c, q_ids, expr) ==
    LET Add(c1, qid) ==
            IF IsFindOp(expr)
            THEN IF expr.op \notin op_map_keys
                 THEN [c |-> c1, q_ids |-> Append(q_ids, qid), err |-> "Unsupported operator"]
                 ELSE LET fm_value == op_format(expr.op, to_filemaker(expr.lhs, expr.rhs))
                      IN [c |-> [c1 EXCEPT !.params =
                                     SetItem(SetItem(c1.params, "-" \o qid, expr.lhs.name),
                                             "-" \o qid \o ".value", fm_value)],
                          q_ids |-> Append(q_ids, qid), err |-> ""]
            ELSE IF IsRaw(expr)
            THEN [c |-> [c1 EXCEPT !.params =
                             SetItem(SetItem(c1.params, "-" \o qid, expr.field.name),
                                     "-" \o qid \o ".value", expr.query)],
                  q_ids |-> Append(q_ids, qid), err |-> ""]
            ELSE [c |-> c1, q_ids |-> Append(q_ids, qid), err |-> ""]
        Numbered(c1) == Add(c1, qid_of(c1))
    IN Numbered(_get_id(c))

\* the loops "for expr in ...: self.add_param(ids, expr)" of compile
RECURSIVE add_params(_, _, _)
add_params(c, q_ids, es) ==
    IF es = <<>> THEN [c |-> c, q_ids |-> q_ids, err |-> ""]
    ELSE LET Rest(first) ==
                IF first.err # "" THEN first
                ELSE add_params(first.c, first.q_ids, Tail(es))
         IN Rest(add_param(c, q_ids, Head(es)))

(***************************************************************************)
(* QueryCompiler.compile                                                   *)
(***************************************************************************)
\* sep.join(parts)
RECURSIVE Join(_, _)
Join(sep, parts) ==
    IF parts = <<>> THEN ""
    ELSE IF Len(parts) = 1 THEN parts[1]
    ELSE parts[1] \o sep \o Join(sep, Tail(parts))

Range(f) == {f[i] : i \in DOMAIN f}

\* the body of "for child in children" (lines 43-72): what one child adds
ProcessChild(h, child) ==
    IF IsQ(child)
    THEN IF h[child.id].negated
         THEN IF h[child.id].children = <<>>
              THEN [err |-> "", pos |-> <<>>, neg |-> <<>>]
              ELSE LET expr == h[child.id].children[1]
                   IN IF IsFindOp(expr)
                      THEN LET inv == invert_op(expr)
                           IN IF inv # None
                              THEN [err |-> "", pos |-> <<inv>>, neg |-> <<>>]
                              ELSE [err |-> "", pos |-> <<>>, neg |-> <<expr>>]
                      ELSE IF IsRaw(expr)
                      THEN [err |-> "", pos |-> <<>>, neg |-> <<expr>>]
                      ELSE [err |-> "Cannot negate", pos |-> <<>>, neg |-> <<>>]
         ELSE [err |-> "", pos |-> h[child.id].children, neg |-> <<>>]
    ELSE IF IsFindOp(child) /\ child.op = "neq"
         THEN [err |-> "", pos |-> <<>>,
               neg |-> <<FindOpExpression(child.lhs, "eq", child.rhs)>>]
         ELSE [err |-> "", pos |-> <<child>>, neg |-> <<>>]

RECURSIVE ProcessChildren(_, _)
ProcessChildren(h, children) ==
    IF children = <<>> THEN [err |-> "", pos |-> <<>>, neg |-> <<>>]
    ELSE LET Cons(first, rest) ==
                [err |-> rest.err, pos |-> first.pos \o rest.pos,
                 neg |-> first.neg \o rest.neg]
             Rest(first) ==
                IF first.err # "" THEN first
                ELSE Cons(first, ProcessChildren(h, Tail(children)))
         IN Rest(ProcessChild(h, Head(children)))

\* es without the repeated occurrences of its elements
RECURSIVE WithoutRepeats(_)
WithoutRepeats(es) ==
    IF es = <<>> THEN <<>>
    ELSE LET front == SubSeq(es, 1, Len(es) - 1)
         IN IF es[Len(es)] \in Range(front) THEN WithoutRepeats(front)
            ELSE Append(WithoutRepeats(front), es[Len(es)])

\* the processing of a group keeping one occurrence of every positive literal
ProcessGroup_positives_collapsed(h, group) ==
    LET Processed(flat, pn) ==
            [h |-> flat.h, err |-> pn.err,
             g |-> [pos |-> WithoutRepeats(pn.pos), neg |-> Range(pn.neg)]]
        Children(flat) ==
            Processed(flat, ProcessChildren(flat.h, IF IsQ(flat.r)
                                                    THEN flat.h[flat.r.id].children
                                                    ELSE <<flat.r>>))
    IN Children(IF IsQ(group) THEN flatten(h, group) ELSE [h |-> h, r |-> group])

\* the processing of a group keeping the negated literals in the list, in
\* the order in which they were written
ProcessGroup_negated_listed(h, group) ==
    LET Processed(flat, pn) ==
            [h |-> flat.h, err |-> pn.err, g |-> [pos |-> pn.pos \o pn.neg, neg |-> {}]]
        Children(flat) ==
            Processed(flat, ProcessChildren(flat.h, IF IsQ(flat.r)
                                                    THEN flat.h[flat.r.id].children
                                                    ELSE <<flat.r>>))
    IN Children(IF IsQ(group) THEN flatten(h, group) ELSE [h |-> h, r |-> group])

\* the body of "for group in groups" (lines 32-76): one processed group; flat
\* is the flattened group, pn its pos_exprs and neg_exprs
ProcessGroup(h, group) ==
    LET Processed(flat, pn) ==
            [h |-> flat.h, err |-> pn.err, g |-> [pos |-> pn.pos, neg |-> Range(pn.neg)]]
        Children(flat) ==
            Processed(flat, ProcessChildren(flat.h, IF IsQ(flat.r)
                                                    THEN flat.h[flat.r.id].children
                                                    ELSE <<flat.r>>))
    IN Children(IF IsQ(group) THEN flatten(h, group) ELSE [h |-> h, r |-> group])

RECURSIVE ProcessGroups(_, _)
ProcessGroups(h, groups) ==
    IF groups = <<>> THEN [h |-> h, err |-> "", gs |-> <<>>]
    ELSE LET Cons(first, rest) ==
                [h |-> rest.h, err |-> rest.err, gs |-> <<first.g>> \o rest.gs]
             Rest(first) ==
                IF first.err # "" THEN [h |-> first.h, err |-> first.err, gs |-> <<>>]
                ELSE Cons(first, ProcessGroups(first.h, Tail(groups)))
         IN Rest(ProcessGroup(h, Head(groups)))

\* the groups with exactly k negated literals, in their order
GroupsOfSize(gs, k) == SelectSeq(gs, LAMBDA g : Cardinality(g.neg) = k)

RECURSIVE SortFrom(_, _)
SortFrom(gs, k) ==
    IF k < 0 THEN <<>> ELSE GroupsOfSize(gs, k) \o SortFrom(gs, k - 1)

MaxNeg(gs) ==
    IF gs = <<>> THEN 0
    ELSE CHOOSE k \in {Cardinality(gs[i].neg) : i \in DOMAIN gs} :
            \A i \in DOMAIN gs : Cardinality(gs[i].neg) <= k

\* the groups left in discovery order
SortGroups_unsorted(gs) == gs

\* a descending sort that turns around the groups of equal size
SortGroups_ties_reversed(gs) ==
    SortFrom([i \in DOMAIN gs |-> gs[Len(gs) + 1 - i]], MaxNeg(gs))

\* a stable sort by ascending size of the negated set
SortGroups_ascending(gs) ==
    LET Ascending(sorted) == [i \in DOMAIN sorted |-> sorted[Len(sorted) + 1 - i]]
    IN Ascending(SortFrom([i \in DOMAIN gs |-> gs[Len(gs) + 1 - i]], MaxNeg(gs)))

\* processed_groups.sort(key=lambda g: len(g["neg"]), reverse=True): stable
SortGroups(gs) == SortFrom(gs, MaxNeg(gs))

\* the validation loop never raising
SubsetCondition_skipped(gs) == TRUE

\* the validation loop (lines 83-90): TRUE iff it does not raise
SubsetCondition(gs) ==
    \A i \in 1..(Len(gs) - 1) : gs[i + 1].neg \subseteq gs[i].neg

\* the body of the emission loop putting the omit terms before the positive list
EmitGroup_omits_first(c, group) ==
    LET Parts(pos_ids, neg_ids) ==
            [i \in DOMAIN neg_ids |-> "!(" \o neg_ids[i] \o ")"]
            \o (IF pos_ids # <<>> THEN <<"(" \o Join(",", pos_ids) \o ")">> ELSE <<>>)
        Emitted(pos, neg) ==
            [c |-> neg.c, err |-> neg.err, pos_ids |-> pos.q_ids, neg_ids |-> neg.q_ids,
             parts |-> Parts(pos.q_ids, neg.q_ids)]
        Negations(pos) ==
            IF pos.err # ""
            THEN [c |-> pos.c, err |-> pos.err, pos_ids |-> pos.q_ids, neg_ids |-> <<>>,
                  parts |-> <<>>]
            ELSE Emitted(pos, add_params(pos.c, <<>>, SortedByRepr(group.neg)))
    IN Negations(add_params(c, <<>>, group.pos))

\* the body of "for group in processed_groups" (lines 95-123); pos and neg are
\* the outcomes of the two add_param loops
EmitGroup(c, group) ==
    LET Parts(pos_ids, neg_ids) ==
            (IF pos_ids # <<>> THEN <<"(" \o Join(",", pos_ids) \o ")">> ELSE <<>>)
            \o [i \in DOMAIN neg_ids |-> "!(" \o neg_ids[i] \o ")"]
        Emitted(pos, neg) ==
            [c |-> neg.c, err |-> neg.err, pos_ids |-> pos.q_ids, neg_ids |-> neg.q_ids,
             parts |-> Parts(pos.q_ids, neg.q_ids)]
        Negations(pos) ==
            IF pos.err # ""
            THEN [c |-> pos.c, err |-> pos.err, pos_ids |-> pos.q_ids, neg_ids |-> <<>>,
                  parts |-> <<>>]
            ELSE Emitted(pos, add_params(pos.c, <<>>, SortedByRepr(group.neg)))
    IN Negations(add_params(c, <<>>, group.pos))

\* the find requests one emitted group stands for: its positive request, then
\* one omit request per negated literal
RequestsOf(group) ==
    (IF group.pos # <<>> THEN <<[omit |-> FALSE, exprs |-> group.pos]>> ELSE <<>>)
    \o [i \in 1..Cardinality(group.neg) |->
            [omit |-> TRUE, exprs |-> <<SortedByRepr(group.neg)[i]>>]]

\* the emission loop leaving out the negated literals that an earlier group
\* has emitted
RECURSIVE EmitGroups_skip_repeated(_, _)
EmitGroups_skip_repeated(c, gs) ==
    IF gs = <<>> THEN [c |-> c, err |-> "", query_ids |-> <<>>, ids |-> <<>>]
    ELSE LET Cons(first, rest) ==
                [c |-> rest.c, err |-> rest.err,
                 query_ids |-> (IF first.parts # <<>>
                                THEN <<Join(";", first.parts)>> ELSE <<>>)
                               \o rest.query_ids,
                 ids |-> first.pos_ids \o first.neg_ids \o rest.ids]
             Rest(first) ==
                IF first.err # ""
                THEN [c |-> first.c, err |-> first.err, query_ids |-> <<>>,
                      ids |-> first.pos_ids \o first.neg_ids]
                ELSE Cons(first, EmitGroups_skip_repeated(first.c,
                        [i \in DOMAIN Tail(gs) |->
                            [Tail(gs)[i] EXCEPT !.neg = @ \ Head(gs).neg]]))
         IN Rest(EmitGroup(c, Head(gs)))

RECURSIVE EmitGroups(_, _)
EmitGroups(c, gs) ==
    IF gs = <<>> THEN [c |-> c, err |-> "", query_ids |-> <<>>, ids |-> <<>>]
    ELSE LET Cons(first, rest) ==
                [c |-> rest.c, err |-> rest.err,
                 query_ids |-> (IF first.parts # <<>>
                                THEN <<Join(";", first.parts)>> ELSE <<>>)
                               \o rest.query_ids,
                 ids |-> first.pos_ids \o first.neg_ids \o rest.ids]
             Rest(first) ==
                IF first.err # ""
                THEN [c |-> first.c, err |-> first.err, query_ids |-> <<>>,
                      ids |-> first.pos_ids \o first.neg_ids]
                ELSE Cons(first, EmitGroups(first.c, Tail(gs)))
         IN Rest(EmitGroup(c, Head(gs)))

RECURSIVE Flat(_)
Flat(ss) == IF ss = <<>> THEN <<>> ELSE Head(ss) \o Flat(Tail(ss))

\* compile with the subset condition tested after the emission instead of
\* before it
compile_validates_after_emission(h, c, q) ==
    LET Emitted(tree, processed, processed_groups, out) ==
            IF ~SubsetCondition(processed_groups)
            THEN [h |-> processed.h, c |-> out.c, err |-> "Cannot represent query",
                  dnf |-> tree, query |-> "", ids |-> <<>>, groups |-> processed_groups,
                  discovered |-> processed.gs, requests |-> <<>>]
            ELSE [h |-> processed.h, c |-> out.c, err |-> out.err, dnf |-> tree,
                  query |-> IF out.err = "" THEN Join(";", out.query_ids) ELSE "",
                  ids |-> out.ids, groups |-> processed_groups,
                  discovered |-> processed.gs,
                  requests |-> Flat([i \in DOMAIN processed_groups |->
                                        RequestsOf(processed_groups[i])])]
        Validated(tree, processed, processed_groups) ==
            IF processed.err # ""
            THEN [h |-> processed.h, c |-> c, err |-> processed.err, dnf |-> tree,
                  query |-> "", ids |-> <<>>, groups |-> <<>>, discovered |-> <<>>,
                  requests |-> <<>>]
            ELSE Emitted(tree, processed, processed_groups,
                         EmitGroups(c, processed_groups))
        Sorted(tree, processed) == Validated(tree, processed, SortGroups(processed.gs))
        Grouped(dnf) ==
            Sorted(TreeOf(dnf.h, dnf.r),
                   ProcessGroups(dnf.h,
                        IF IsQ(dnf.r) /\ dnf.h[dnf.r.id].connector = OR
                                      /\ ~dnf.h[dnf.r.id].negated
                        THEN dnf.h[dnf.r.id].children
                        ELSE <<dnf.r>>))
    IN Grouped(to_dnf(h, q))

\* QueryCompiler.compile(q) on compiler c: the heap and the compiler after the
\* call, the error raised ("" if none) and the returned query string; dnf is
\* the value of the tree to_dnf returned, discovered is processed_groups before
\* the sort and groups is it after the sort
compile(h, c, q) ==
    LET Emitted(tree, processed, processed_groups, out) ==
            [h |-> processed.h, c |-> out.c, err |-> out.err, dnf |-> tree,
             query |-> IF out.err = "" THEN Join(";", out.query_ids) ELSE "",
             ids |-> out.ids, groups |-> processed_groups, discovered |-> processed.gs,
             requests |-> Flat([i \in DOMAIN processed_groups |->
                                    RequestsOf(processed_groups[i])])]
        Validated(tree, processed, processed_groups) ==
            IF processed.err # ""
            THEN [h |-> processed.h, c |-> c, err |-> processed.err, dnf |-> tree,
                  query |-> "", ids |-> <<>>, groups |-> <<>>, discovered |-> <<>>,
                  requests |-> <<>>]
            ELSE IF ~SubsetCondition(processed_groups)
            THEN [h |-> processed.h, c |-> c, err |-> "Cannot represent query",
                  dnf |-> tree, query |-> "", ids |-> <<>>, groups |-> processed_groups,
                  discovered |-> processed.gs, requests |-> <<>>]
            ELSE Emitted(tree, processed, processed_groups,
                         EmitGroups(c, processed_groups))
        Sorted(tree, processed) == Validated(tree, processed, SortGroups(processed.gs))
        Grouped(dnf) ==
            Sorted(TreeOf(dnf.h, dnf.r),
                   ProcessGroups(dnf.h,
                        IF IsQ(dnf.r) /\ dnf.h[dnf.r.id].connector = OR
                                      /\ ~dnf.h[dnf.r.id].negated
                        THEN dnf.h[dnf.r.id].children
                        ELSE <<dnf.r>>))
    IN Grouped(to_dnf(h, q))

(***************************************************************************)
(* The caller: expressions written with &, | and ~ over the literals.      *)
(***************************************************************************)
Lit(e) == [k |-> "lit", e |-> e]
Not(x) == [k |-> "not", x |-> x]
And(x, y) == [k |-> "and", x |-> x, y |-> y]
Or(x, y) == [k |-> "or", x |-> x, y |-> y]
\* Q(): a group constructed without children
EmptyQ == [k |-> "group"]

\* the number of literal occurrences in an expression as written
RECURSIVE Leaves(_)
Leaves(term) ==
    CASE term.k = "lit" -> 1
      [] term.k = "group" -> 0
      [] term.k = "not" -> Leaves(term.x)
      [] OTHER -> Leaves(term.x) + Leaves(term.y)

\* evaluation of a Python expression over the literals: operands first, left
\* to right, then the operator
RECURSIVE Build(_, _)
Build(h, term) ==
    CASE term.k = "lit" -> [h |-> h, r |-> term.e]
      [] term.k = "group" -> QNew(h, <<>>, AND, FALSE)
      [] term.k = "not" -> LET x == Build(h, term.x) IN Invert(x.h, x.r)
      [] term.k = "and" -> LET x == Build(h, term.x)
                               y == Build(x.h, term.y)
                           IN Combine(y.h, x.r, y.r, AND)
      [] term.k = "or" -> LET x == Build(h, term.x)
                              y == Build(x.h, term.y)
                          IN Combine(y.h, x.r, y.r, OR)

\* a literal or its negation
Units == {Lit(e) : e \in Lits} \cup {Not(Lit(e)) : e \in Lits}

\* expressions with at most one & or |
Simple == Units \cup {And(x, y) : x, y \in Units} \cup {Or(x, y) : x, y \in Units}

\* operands of the larger shapes: literals, negated literals, small groups
Operands ==
    {Lit(LitA), Lit(LitG), Lit(LitN), Not(Lit(LitA)), Not(Lit(LitG)), Not(Lit(LitR)),
     Or(Lit(LitA), Lit(LitG)), And(Lit(LitG), Not(Lit(LitR)))}

\* one conjunctive branch: an optional positive literal and negated literals
\* whose negation stays an omit
Branches ==
    {Lit(LitG), Lit(LitC), Lit(LitN)}
    \cup {And(p, Not(Lit(n))) : p \in {Lit(LitG), Lit(LitC)}, n \in {LitA, LitR}}
    \cup {And(And(p, Not(Lit(n))), Not(Lit(m))) :
            p \in {Lit(LitG), Lit(LitC)}, n \in {LitA, LitR}, m \in {LitA, LitR}}
    \cup {Not(Lit(LitA)), Not(Lit(LitR)), And(Not(Lit(LitA)), Not(Lit(LitR)))}

\* expressions over a literal whose operator token is not in OP_T
WithUnlistedOperator ==
    {Lit(LitX), Not(Lit(LitX)), And(Lit(LitA), Lit(LitX)), Or(Lit(LitX), Lit(LitG)),
     And(Lit(LitG), Not(Lit(LitX)))}

\* expressions over a literal whose value has a character that is escaped
WithSpecialValue ==
    {Lit(LitS), Not(Lit(LitS)), And(Lit(LitA), Not(Lit(LitS))), Or(Lit(LitC), Not(Lit(LitS))),
     Lit(LitT), Not(Lit(LitT)), And(Lit(LitG), Lit(LitT)), And(Lit(LitA), Not(Lit(LitT)))}

\* conjunctions in which a literal is written twice: (age > 30) & ~A & (age > 30) & ~A
\* and the like
WithRepeatedLiterals ==
    {And(And(And(Lit(p), Not(Lit(n))), Lit(p)), Not(Lit(n))) :
        p \in {LitG, LitC}, n \in {LitA, LitR}}
    \cup {And(And(Lit(LitN), Lit(LitA)), And(Lit(LitN), Lit(LitA))),
          Or(And(And(Lit(LitC), Lit(LitC)), Not(Lit(LitR))), And(Not(Lit(LitR)), Not(Lit(LitR))))}

\* expressions with a group that was constructed without children
WithEmptyGroup ==
    {EmptyQ, Not(EmptyQ), Or(Lit(LitA), EmptyQ), And(Lit(LitA), Not(EmptyQ)),
     Or(EmptyQ, Lit(LitG))}

\* the expressions whose compilation is explored
CompileExprs ==
    Simple
    \cup {Not(t) : t \in Simple}
    \cup {Not(Not(t)) : t \in Simple}
    \cup {Not(And(a, b)) : a, b \in Operands}
    \cup {Not(Or(a, b)) : a, b \in Operands}
    \cup {Or(Not(a), Not(b)) : a, b \in Operands}
    \cup {And(Not(a), Not(b)) : a, b \in Operands}
    \cup {And(Or(a, b), c) : a, b, c \in Operands}
    \cup {Or(And(a, c), And(b, c)) : a, b, c \in Operands}
    \cup {Or(x, y) : x, y \in Branches}
    \cup {Or(Or(x, y), z) : x, y, z \in Branches}
    \cup WithUnlistedOperator
    \cup WithSpecialValue
    \cup WithRepeatedLiterals
    \cup WithEmptyGroup

\* the expressions a caller session starts from
SessionExprs ==
    {Lit(LitA), Not(Lit(LitC)), Or(Lit(LitA), Lit(LitR)), And(Lit(LitG), Not(Lit(LitR))),
     Not(Or(Lit(LitN), Lit(LitC))), And(Or(Lit(LitA), Lit(LitG)), Lit(LitR))}

(***************************************************************************)
(* The state machine.                                                      *)
(***************************************************************************)
\* what the caller holds of an expression it has built: the reference, the
\* expression as written and the value it had when it was constructed
Held(b, t) == [ref |-> b.r, term |-> t, tree |-> TreeOf(b.h, b.r)]

\* a thread that is not inside a compile call
Idle == [pc |-> "idle"]

\* the caller holds one expression; no compiler exists yet, no thread is inside
\* a call
InitWith(t) ==
    LET Hold(b) ==
            /\ heap = b.h
            /\ exprs = <<Held(b, t)>>
    IN /\ Hold(Build(<<>>, t))
       /\ compilers = <<>>
       /\ results = <<>>
       /\ threads = [n \in 1..MaxThreads |-> Idle]
       /\ staged = <<>>

Init == \E t \in SessionExprs : InitWith(t)

InitCompile == \E t \in CompileExprs : InitWith(t)

\* the caller evaluates ~exprs[i] and keeps the result
BuildNot(i) ==
    /\ Len(exprs) < MaxExprs
    /\ LET Keep(b) ==
            /\ heap' = b.h
            /\ exprs' = Append(exprs, Held(b, Not(exprs[i].term)))
       IN Keep(Invert(heap, exprs[i].ref))
    /\ UNCHANGED <<compilers, results, threads, staged>>

\* the caller evaluates exprs[i] & exprs[j] and keeps the result
BuildAnd(i, j) ==
    /\ Len(exprs) < MaxExprs
    /\ Leaves(exprs[i].term) + Leaves(exprs[j].term) <= MaxLeaves
    /\ LET Keep(b) ==
            /\ heap' = b.h
            /\ exprs' = Append(exprs, Held(b, And(exprs[i].term, exprs[j].term)))
       IN Keep(Combine(heap, exprs[i].ref, exprs[j].ref, AND))
    /\ UNCHANGED <<compilers, results, threads, staged>>

\* the caller evaluates exprs[i] | exprs[j] and keeps the result
BuildOr(i, j) ==
    /\ Len(exprs) < MaxExprs
    /\ Leaves(exprs[i].term) + Leaves(exprs[j].term) <= MaxLeaves
    /\ LET Keep(b) ==
            /\ heap' = b.h
            /\ exprs' = Append(exprs, Held(b, Or(exprs[i].term, exprs[j].term)))
       IN Keep(Combine(heap, exprs[i].ref, exprs[j].ref, OR))
    /\ UNCHANGED <<compilers, results, threads, staged>>

\* QueryCompiler(model)
NewCompiler ==
    /\ Len(compilers) < MaxCompilers
    /\ compilers' = Append(compilers, NewQueryCompiler)
    /\ UNCHANGED <<heap, exprs, results, threads, staged>>

\* what the caller keeps of a compile call: the compiler it ran on, its
\* argument, the error raised or the returned query string, and the returned
\* params as they are at the return (the dict itself is compilers[c].params)
ResultOf(c, i, out) ==
    [compiler |-> c, expr |-> i, term |-> exprs[i].term,
     err |-> out.err, query |-> out.query, params |-> out.c.params, dnf |-> out.dnf,
     ids |-> out.ids, groups |-> out.groups, discovered |-> out.discovered,
     requests |-> out.requests]

\* compilers[c].compile(exprs[i]); the objects the call allocated are dropped
\* when it returns, the caller's objects stay in the heap as the call left them
Compile(c, i) ==
    /\ Len(results) < MaxCompiles
    /\ LET Return(out) ==
            /\ heap' = SubSeq(out.h, 1, Len(heap))
            /\ compilers' = [compilers EXCEPT ![c] = out.c]
            /\ results' = Append(results, ResultOf(c, i, out))
       IN Return(compile(heap, compilers[c], exprs[i].ref))
    /\ UNCHANGED <<exprs, threads, staged>>

\* QueryCompiler(model).compile(exprs[i]) on a compiler made for this call
CompileFresh(i) ==
    /\ Len(results) < MaxCompiles
    /\ Len(compilers) < MaxCompilers
    /\ LET Return(out) ==
            /\ heap' = SubSeq(out.h, 1, Len(heap))
            /\ compilers' = Append(compilers, out.c)
            /\ results' = Append(results, ResultOf(Len(compilers) + 1, i, out))
       IN Return(compile(heap, NewQueryCompiler, exprs[i].ref))
    /\ UNCHANGED <<exprs, threads, staged>>

Next ==
    \/ \E i \in DOMAIN exprs : BuildNot(i)
    \/ \E i, j \in DOMAIN exprs : BuildAnd(i, j)
    \/ \E i, j \in DOMAIN exprs : BuildOr(i, j)
    \/ NewCompiler
    \/ \E c \in DOMAIN compilers, i \in DOMAIN exprs : Compile(c, i)

\* a caller session: expressions are built and reused, compilers are reused
Spec == Init /\ [][Next]_vars

NextCompile == \E i \in DOMAIN exprs : CompileFresh(i)

\* each explored expression compiled by a compiler of its own
SpecCompile == InitCompile /\ [][NextCompile]_vars

(***************************************************************************)
(* Compile calls on threads.  A call works on self.counter and self.params *)
(* of its compiler instance; a thread switch can fall between any two of   *)
(* its reads and writes of them.  The stages before the emission read the  *)
(* argument and write only objects the call allocated itself.              *)
(***************************************************************************)
\* lines 22-90 of compile: the processed groups before and after the sort, and
\* the error raised by the group loop or by the validation
Prepare(h, q) ==
    LET Validated(tree, processed, processed_groups) ==
            [err |-> IF processed.err # "" THEN processed.err
                     ELSE IF ~SubsetCondition(processed_groups)
                     THEN "Cannot represent query" ELSE "",
             dnf |-> tree,
             groups |-> IF processed.err # "" THEN <<>> ELSE processed_groups,
             discovered |-> IF processed.err # "" THEN <<>> ELSE processed.gs]
        Sorted(tree, processed) == Validated(tree, processed, SortGroups(processed.gs))
        Grouped(dnf) ==
            Sorted(TreeOf(dnf.h, dnf.r),
                   ProcessGroups(dnf.h,
                        IF IsQ(dnf.r) /\ dnf.h[dnf.r.id].connector = OR
                                      /\ ~dnf.h[dnf.r.id].negated
                        THEN dnf.h[dnf.r.id].children
                        ELSE <<dnf.r>>))
    IN Grouped(to_dnf(h, q))

\* the literals in the order in which the emission loop hands them to
\* add_param (lines 95-113)
EmissionOrder(gs) ==
    Flat([i \in DOMAIN gs |-> gs[i].pos \o SortedByRepr(gs[i].neg)])

\* query_ids (lines 115-123) for the identifiers that the add_param calls drew
RECURSIVE QueryIds(_, _)
QueryIds(gs, ids) ==
    IF gs = <<>> THEN <<>>
    ELSE LET Parts(pos_ids, neg_ids) ==
                (IF pos_ids # <<>> THEN <<"(" \o Join(",", pos_ids) \o ")">> ELSE <<>>)
                \o [i \in DOMAIN neg_ids |-> "!(" \o neg_ids[i] \o ")"]
             Joined(parts) == IF parts # <<>> THEN <<Join(";", parts)>> ELSE <<>>
             Split(np, nn) ==
                Joined(Parts(SubSeq(ids, 1, np), SubSeq(ids, np + 1, np + nn)))
                \o QueryIds(Tail(gs), SubSeq(ids, np + nn + 1, Len(ids)))
         IN Split(Len(Head(gs).pos), Cardinality(Head(gs).neg))

\* a thread inside compilers[c].compile(exprs[i]) that is about to emit
Emitting(c, i, prepared) ==
    [pc |-> IF EmissionOrder(prepared.groups) = <<>> THEN "return" ELSE "load",
     compiler |-> c, expr |-> i, dnf |-> prepared.dnf, groups |-> prepared.groups,
     discovered |-> prepared.discovered, todo |-> EmissionOrder(prepared.groups),
     ids |-> <<>>, tmp |-> 0]

\* what a thread's call hands to its caller
ThreadResult(th, err) ==
    [compiler |-> th.compiler, expr |-> th.expr, term |-> exprs[th.expr].term,
     err |-> err, dnf |-> th.dnf,
     query |-> IF err = "" THEN Join(";", QueryIds(th.groups, th.ids)) ELSE "",
     params |-> compilers[th.compiler].params,
     ids |-> th.ids, groups |-> th.groups, discovered |-> th.discovered,
     requests |-> IF err = ""
                  THEN Flat([i \in DOMAIN th.groups |-> RequestsOf(th.groups[i])])
                  ELSE <<>>]

Done == [pc |-> "done"]

\* thread t calls compilers[c].compile(exprs[i]) and runs it up to the emission
\* loop; a call that raises there has returned
Begin(t, c, i) ==
    /\ threads[t].pc = "idle"
    /\ LET Started(prepared) ==
            IF prepared.err # ""
            THEN /\ threads' = [threads EXCEPT ![t] = Done]
                 /\ results' = Append(results,
                        [compiler |-> c, expr |-> i, term |-> exprs[i].term,
                         err |-> prepared.err, query |-> "", dnf |-> prepared.dnf,
                         params |-> compilers[c].params, ids |-> <<>>,
                         groups |-> prepared.groups, discovered |-> prepared.discovered,
                         requests |-> <<>>])
            ELSE /\ threads' = [threads EXCEPT ![t] = Emitting(c, i, prepared)]
                 /\ UNCHANGED results
       IN Started(Prepare(heap, exprs[i].ref))
    /\ UNCHANGED <<heap, exprs, compilers, staged>>

\* _get_id, "self.counter += 1": the read of the counter
LoadCounter(t) ==
    /\ threads[t].pc = "load"
    /\ threads' = [threads EXCEPT ![t].pc = "store",
                                  ![t].tmp = compilers[threads[t].compiler].counter]
    /\ UNCHANGED <<heap, exprs, compilers, results, staged>>

\* _get_id, "self.counter += 1": the write of the counter
StoreCounter(t) ==
    /\ threads[t].pc = "store"
    /\ compilers' = [compilers EXCEPT ![threads[t].compiler].counter = threads[t].tmp + 1]
    /\ threads' = [threads EXCEPT ![t].pc = "qid"]
    /\ UNCHANGED <<heap, exprs, results, staged>>

\* _get_id, return f"q{self.counter}", and q_ids.append(qid) of add_param
ReadId(t) ==
    /\ threads[t].pc = "qid"
    /\ threads' = [threads EXCEPT
            ![t].pc = "name",
            ![t].ids = Append(@, qid_of(compilers[threads[t].compiler]))]
    /\ UNCHANGED <<heap, exprs, compilers, results, staged>>

\* add_param: the operator test, which may raise, and self.params["-qid"]
SetName(t) ==
    /\ threads[t].pc = "name"
    /\ LET th == threads[t]
           expr == Head(th.todo)
           qid == th.ids[Len(th.ids)]
       IN IF IsFindOp(expr) /\ expr.op \notin op_map_keys
          THEN /\ threads' = [threads EXCEPT ![t] = Done]
               /\ results' = Append(results, ThreadResult(th, "Unsupported operator"))
               /\ UNCHANGED compilers
          ELSE /\ compilers' = [compilers EXCEPT ![th.compiler].params =
                        SetItem(@, "-" \o qid,
                                IF IsFindOp(expr) THEN expr.lhs.name ELSE expr.field.name)]
               /\ threads' = [threads EXCEPT ![t].pc = "value"]
               /\ UNCHANGED results
    /\ UNCHANGED <<heap, exprs, staged>>

\* add_param: self.params["-qid.value"]; then the next literal, if any
SetValue(t) ==
    /\ threads[t].pc = "value"
    /\ LET th == threads[t]
           expr == Head(th.todo)
           qid == th.ids[Len(th.ids)]
       IN /\ compilers' = [compilers EXCEPT ![th.compiler].params =
                SetItem(@, "-" \o qid \o ".value",
                        IF IsFindOp(expr)
                        THEN op_format(expr.op, to_filemaker(expr.lhs, expr.rhs))
                        ELSE expr.query)]
          /\ threads' = [threads EXCEPT
                ![t].todo = Tail(th.todo),
                ![t].pc = IF Tail(th.todo) = <<>> THEN "return" ELSE "load"]
    /\ UNCHANGED <<heap, exprs, results, staged>>

\* return query_str, self.params
Return(t) ==
    /\ threads[t].pc = "return"
    /\ results' = Append(results, ThreadResult(threads[t], ""))
    /\ threads' = [threads EXCEPT ![t] = Done]
    /\ UNCHANGED <<heap, exprs, compilers, staged>>

\* the expressions the threads compile
ConcurrentExprs ==
    {Lit(LitA), And(Lit(LitG), Not(Lit(LitR))), Or(Lit(LitA), Lit(LitR)),
     Not(Or(Lit(LitN), Lit(LitC))), Lit(LitX)}

InitConcurrent == \E t \in ConcurrentExprs : InitWith(t)

NextConcurrent ==
    \/ NewCompiler
    \/ \E t \in DOMAIN threads, c \in DOMAIN compilers, i \in DOMAIN exprs : Begin(t, c, i)
    \/ \E t \in DOMAIN threads : LoadCounter(t)
    \/ \E t \in DOMAIN threads : StoreCounter(t)
    \/ \E t \in DOMAIN threads : ReadId(t)
    \/ \E t \in DOMAIN threads : SetName(t)
    \/ \E t \in DOMAIN threads : SetValue(t)
    \/ \E t \in DOMAIN threads : Return(t)

\* compile calls of several threads, interleaved at their accesses to the
\* compiler instance
SpecConcurrent == InitConcurrent /\ [][NextConcurrent]_vars

(***************************************************************************)
(* The stages of the compiler applied on their own to a held expression.   *)
(***************************************************************************)
\* what is kept of one application: the stage, its argument, the value of
\* the tree it returned, and whether the returned group is an object that the
\* call has made
StageResult(stage, i, out) ==
    [stage |-> stage, expr |-> i, term |-> exprs[i].term, tree |-> TreeOf(out.h, out.r),
     fresh |-> IsQ(out.r) => out.r.id > Len(heap)]

\* QueryCompiler(model).push_negations(exprs[i])
PushNegations(i) ==
    /\ Len(staged) < MaxStaged
    /\ LET Returned(out) ==
            /\ heap' = SubSeq(out.h, 1, Len(heap))
            /\ staged' = Append(staged, StageResult("push_negations", i, out))
       IN Returned(push_negations(heap, exprs[i].ref))
    /\ UNCHANGED <<exprs, compilers, results, threads>>

\* QueryCompiler(model).to_dnf(exprs[i])
ToDnf(i) ==
    /\ Len(staged) < MaxStaged
    /\ LET Returned(out) ==
            /\ heap' = SubSeq(out.h, 1, Len(heap))
            /\ staged' = Append(staged, StageResult("to_dnf", i, out))
       IN Returned(to_dnf(heap, exprs[i].ref))
    /\ UNCHANGED <<exprs, compilers, results, threads>>

\* QueryCompiler(model).distribute(exprs[i]); distribute assigns to
\* q.children, so objects that the call made can stay reachable from the
\* argument and the whole heap is kept
Distribute(i) ==
    /\ Len(staged) < MaxStaged
    /\ LET Returned(out) ==
            /\ heap' = out.h
            /\ staged' = Append(staged, StageResult("distribute", i, out))
       IN Returned(distribute(heap, exprs[i].ref))
    /\ UNCHANGED <<exprs, compilers, results, threads>>

\* QueryCompiler(model).flatten(exprs[i])
Flatten(i) ==
    /\ Len(staged) < MaxStaged
    /\ LET Returned(out) ==
            /\ heap' = SubSeq(out.h, 1, Len(heap))
            /\ staged' = Append(staged, StageResult("flatten", i, out))
       IN Returned(flatten(heap, exprs[i].ref))
    /\ UNCHANGED <<exprs, compilers, results, threads>>

NextStages ==
    \/ \E i \in DOMAIN exprs : PushNegations(i)
    \/ \E i \in DOMAIN exprs : ToDnf(i)
    \/ \E i \in DOMAIN exprs : Distribute(i)
    \/ \E i \in DOMAIN exprs : Flatten(i)

\* each explored expression handed to one stage of the compiler
SpecStages == InitCompile /\ [][NextStages]_vars

(***************************************************************************)
(* invert_op applied on its own to comparisons with every operator of      *)
(* OP_T, and again to what it returned.                                    *)
(***************************************************************************)
Comparisons ==
    {FindOpExpression(f, op, v) :
        f \in {NameField, AgeField, CityField}, op \in OP_T, v \in {"10", "a=b"}}

InitInvert == \E e \in Comparisons : InitWith(Lit(e))

\* the comparison obtained last: the held one or the last inverse
LastComparison == IF staged = <<>> THEN exprs[1].ref ELSE staged[Len(staged)].inv

\* QueryCompiler(model).invert_op(expr) for the comparison obtained last
InvertOp ==
    /\ Len(staged) < MaxInversions
    /\ LastComparison # None
    /\ staged' = Append(staged, [stage |-> "invert_op", expr |-> LastComparison,
                                 inv |-> invert_op(LastComparison)])
    /\ UNCHANGED <<heap, exprs, compilers, results, threads>>

SpecInvert == InitInvert /\ [][InvertOp]_vars

(***************************************************************************)
(* The builder operations & and | applied to two operands the caller       *)
(* holds.                                                                  *)
(***************************************************************************)
BuildOperands ==
    {Lit(LitA), Not(Lit(LitC)), And(Lit(LitG), Lit(LitN)), Or(Lit(LitA), Lit(LitR)),
     And(Lit(LitG), Not(Lit(LitR))), Not(And(Lit(LitG), Lit(LitC))),
     Not(Or(Lit(LitN), Lit(LitC)))}

\* the caller holds the operands a and b
InitBuild ==
    \E a, b \in BuildOperands :
        LET Hold(x, y) ==
                /\ heap = y.h
                /\ exprs = <<Held(x, a), [ref |-> y.r, term |-> b, tree |-> TreeOf(y.h, y.r)]>>
            Second(x) == Hold(x, Build(x.h, b))
        IN /\ Second(Build(<<>>, a))
           /\ compilers = <<>>
           /\ results = <<>>
           /\ threads = [n \in 1..MaxThreads |-> Idle]
           /\ staged = <<>>

\* what the caller keeps of exprs[i] & exprs[j] or exprs[i] | exprs[j]: the
\* result and the operands it was built from
Combined(b, connector, i, j) ==
    [ref |-> b.r, term |-> IF connector = AND THEN And(exprs[i].term, exprs[j].term)
                           ELSE Or(exprs[i].term, exprs[j].term),
     tree |-> TreeOf(b.h, b.r), connector |-> connector, self |-> i, other |-> j]

\* the caller evaluates exprs[i] & exprs[j]
CombineAnd(i, j) ==
    /\ Len(staged) < MaxCombined
    /\ LET Keep(b) ==
            /\ heap' = b.h
            /\ staged' = Append(staged, Combined(b, AND, i, j))
       IN Keep(Combine(heap, exprs[i].ref, exprs[j].ref, AND))
    /\ UNCHANGED <<exprs, compilers, results, threads>>

\* the caller evaluates exprs[i] | exprs[j]
CombineOr(i, j) ==
    /\ Len(staged) < MaxCombined
    /\ LET Keep(b) ==
            /\ heap' = b.h
            /\ staged' = Append(staged, Combined(b, OR, i, j))
       IN Keep(Combine(heap, exprs[i].ref, exprs[j].ref, OR))
    /\ UNCHANGED <<exprs, compilers, results, threads>>

NextBuild ==
    \/ \E i, j \in DOMAIN exprs : CombineAnd(i, j)
    \/ \E i, j \in DOMAIN exprs : CombineOr(i, j)

SpecBuild == InitBuild /\ [][NextBuild]_vars

(***************************************************************************)
(* Meaning of expressions and of emitted find requests over a record.      *)
(* A record is a truth assignment to the comparisons; a comparison with    *)
(* the inverse operator is the complement of the original, neq is the      *)
(* complement of eq.                                                       *)
(***************************************************************************)
\* the comparison a literal is stated over, and whether it is its complement
Atom(e) ==
    IF IsFindOp(e)
    THEN CASE e.op = "neq" -> WithOp(e, "eq")
           [] e.op = "lte" -> WithOp(e, "gt")
           [] e.op = "gte" -> WithOp(e, "lt")
           [] OTHER -> e
    ELSE e

Complemented(e) == IsFindOp(e) /\ e.op \in {"neq", "lte", "gte"}

\* a comparison built again from the field, operator and value of e
Rebuilt(e) == FindOpExpression(e.lhs, e.op, e.rhs)

Atoms == {Atom(e) : e \in Lits \cup SpecialLits \cup {Rebuilt(e) : e \in SpecialLits}}

Records == [Atoms -> BOOLEAN]

Holds(e, rec) == IF Complemented(e) THEN ~rec[Atom(e)] ELSE rec[Atom(e)]

\* truth of the expression below a reference
RECURSIVE Satisfies(_, _, _)
Satisfies(h, r, rec) ==
    IF ~IsQ(r) THEN Holds(r, rec)
    ELSE LET n == h[r.id]
             v == IF n.connector = AND
                  THEN \A i \in DOMAIN n.children : Satisfies(h, n.children[i], rec)
                  ELSE \E i \in DOMAIN n.children : Satisfies(h, n.children[i], rec)
         IN IF n.negated THEN ~v ELSE v

\* a find request matches the records that satisfy all of its clauses
Matches(req, rec) == \A i \in DOMAIN req.exprs : ~IsQ(req.exprs[i]) /\ Holds(req.exprs[i], rec)

\* the found set after the first n requests: a positive request adds its
\* matches, an omit request removes its matches from what was found so far;
\* a leading omit request starts from all records
RECURSIVE FoundAfter(_, _, _)
FoundAfter(reqs, n, rec) ==
    IF n = 0 THEN reqs # <<>> /\ reqs[1].omit
    ELSE IF reqs[n].omit THEN FoundAfter(reqs, n - 1, rec) /\ ~Matches(reqs[n], rec)
    ELSE FoundAfter(reqs, n - 1, rec) \/ Matches(reqs[n], rec)

Selected(reqs, rec) == FoundAfter(reqs, Len(reqs), rec)

(***************************************************************************)
(* Properties.                                                             *)
(***************************************************************************)
\* C1: whenever compile succeeds, the emitted requests select exactly the
\* records that satisfy the compiled expression.
C1_SelectsExactlyTheSatisfying ==
    \A k \in DOMAIN results :
        results[k].err = "" =>
            \A rec \in Records :
                Selected(results[k].requests, rec)
                    <=> Satisfies(heap, exprs[results[k].expr].ref, rec)

\* some ordering of the branches makes every branch's negated set a superset
\* of the negated set of every later branch: some branch can come first, and
\* the others can be ordered in the same way
RECURSIVE ChainOrderExists(_)
ChainOrderExists(gs) ==
    \/ gs = <<>>
    \/ \E i \in DOMAIN gs :
        /\ \A j \in DOMAIN gs : gs[j].neg \subseteq gs[i].neg
        /\ ChainOrderExists(SubSeq(gs, 1, i - 1) \o SubSeq(gs, i + 1, Len(gs)))

Unrepresentable == "Cannot represent query"

\* negated literals that stay omits
Omitted == {LitA, LitR}

OmittedPairs == {p \in Omitted \X Omitted : p[1] # p[2]}

\* (A & !B) | (C & !D) with B # D
DisjointNegation ==
    {Or(And(a, Not(Lit(p[1]))), And(c, Not(Lit(p[2])))) :
        a \in {Lit(LitG), Lit(LitC)}, c \in {Lit(LitG), Lit(LitC)}, p \in OmittedPairs}

\* (A & !B) | C | (D & !E) with B # E
MixedNegation ==
    {Or(Or(And(a, Not(Lit(p[1]))), c), And(d, Not(Lit(p[2])))) :
        a \in {Lit(LitG), Lit(LitC)}, c \in {Lit(LitG), Lit(LitC)},
        d \in {Lit(LitG), Lit(LitC)}, p \in OmittedPairs}

\* C2: compile raises "Cannot represent query" exactly when no ordering of the
\* processed branches is a superset chain of negated sets; it raises for
\* (A & !B) | (C & !D) and for (A & !B) | C | (D & !E).
C2_RaisesIffNoChainOrder ==
    \A k \in DOMAIN results :
        /\ results[k].err \in {"", Unrepresentable} =>
              (results[k].err = Unrepresentable <=> ~ChainOrderExists(results[k].groups))
        /\ results[k].term \in DisjointNegation \cup MixedNegation =>
              results[k].err = Unrepresentable

\* (A & !B) | C | (D & !E) was compiled: its three branches have no chain
\* order and the call raised
C2_Witness ==
    \E k \in DOMAIN results :
        /\ results[k].term \in MixedNegation
        /\ results[k].err = Unrepresentable
        /\ Len(results[k].groups) = 3
        /\ ~ChainOrderExists(results[k].groups)

\* C3: after a successful compile, every emitted branch's negated set is a
\* superset of the negated set of every branch emitted after it.
C3_EmittedBranchesChain ==
    \A k \in DOMAIN results :
        results[k].err = "" =>
            \A i, j \in DOMAIN results[k].groups :
                i < j => results[k].groups[j].neg \subseteq results[k].groups[i].neg

\* a successful compile of three branches with strictly shrinking negated sets
C3_Witness ==
    \E k \in DOMAIN results :
        /\ results[k].err = ""
        /\ Len(results[k].groups) = 3
        /\ results[k].groups[3].neg # results[k].groups[2].neg
        /\ results[k].groups[2].neg # results[k].groups[1].neg
        /\ results[k].groups[3].neg \subseteq results[k].groups[1].neg

\* the end of the run of digits of s that starts at position i
RECURSIVE DigitsEnd(_, _)
DigitsEnd(s, i) ==
    IF i <= Len(s) /\ SubSeq(s, i, i) \in {"0", "1", "2", "3", "4", "5", "6", "7", "8", "9"}
    THEN DigitsEnd(s, i + 1) ELSE i

\* how often the identifier id (q and a number) is named in the string s
Occurrences(id, s) ==
    Cardinality({i \in 1..Len(s) :
        /\ SubSeq(s, i, i) = "q"
        /\ SubSeq(s, i, DigitsEnd(s, i + 1) - 1) = id})

\* the keys add_param writes for the identifiers ids
ParamKeys(ids) ==
    {"-" \o ids[n] : n \in DOMAIN ids} \cup {"-" \o ids[n] \o ".value" : n \in DOMAIN ids}

\* C4: a result returned by compile keeps its content through later compile
\* calls, and its mapping holds only the parameters of its own identifiers.
C4_ReturnedResultsNeverChange ==
    \A k \in DOMAIN results :
        results[k].err = "" =>
            /\ compilers[results[k].compiler].params = results[k].params
            /\ DOMAIN results[k].params = ParamKeys(results[k].ids)

\* C5: in every compile call the k-th emitted literal gets the identifier qk.
C5_IdentifiersRestartAtQ1 ==
    \A k \in DOMAIN results :
        \A n \in DOMAIN results[k].ids : results[k].ids[n] = "q" \o ToString(n)

Outcome(r) == [err |-> r.err, query |-> r.query, params |-> r.params]

\* the outcome of compiling the expression t, built afresh, by a fresh compiler
FreshOutcome(t) ==
    LET b == Build(<<>>, t)
    IN Outcome([err |-> compile(b.h, NewQueryCompiler, b.r).err,
                query |-> compile(b.h, NewQueryCompiler, b.r).query,
                params |-> compile(b.h, NewQueryCompiler, b.r).c.params])

\* C7: not(not(x)) compiles to the directive string and the parameter mapping
\* that x compiles to.
C7_DoubleNegation ==
    \A k \in DOMAIN results :
        LET t == results[k].term
        IN (t.k = "not" /\ t.x.k = "not") => Outcome(results[k]) = FreshOutcome(t.x.x)

\* not(not(x)) was compiled for a disjunction x of two different literals
C7_Witness ==
    \E k \in DOMAIN results :
        LET t == results[k].term
        IN /\ t.k = "not" /\ t.x.k = "not" /\ t.x.x.k = "or"
           /\ t.x.x.x # t.x.x.y
           /\ results[k].err = ""
           /\ Len(results[k].ids) = 2

\* literals whose operator has no inverse, and raw fragments
NoInverse == {e \in Lits : IsRaw(e) \/ invert_op(e) = None}

\* C8: not(and(a, b)) compiles as or(not(a), not(b)) does and not(or(a, b)) as
\* and(not(a), not(b)) does; a negated disjunction of literals without inverse
\* is one branch without positive part and with one omit term per literal.
C8_DeMorgan ==
    \A k \in DOMAIN results :
        LET t == results[k].term
        IN /\ (t.k = "not" /\ t.x.k = "and") =>
                Outcome(results[k]) = FreshOutcome(Or(Not(t.x.x), Not(t.x.y)))
           /\ (t.k = "not" /\ t.x.k = "or") =>
                Outcome(results[k]) = FreshOutcome(And(Not(t.x.x), Not(t.x.y)))
           /\ (t.k = "not" /\ t.x.k = "or" /\ t.x.x.k = "lit" /\ t.x.y.k = "lit"
                    /\ t.x.x.e \in NoInverse /\ t.x.y.e \in NoInverse) =>
                /\ results[k].err = ""
                /\ results[k].groups = <<[pos |-> <<>>, neg |-> {t.x.x.e, t.x.y.e}]>>
                /\ results[k].query =
                        IF t.x.x.e = t.x.y.e THEN "!(q1)" ELSE "!(q1);!(q2)"

\* a negated conjunction and a negated disjunction of groups were compiled
C8_Witness ==
    \E k \in DOMAIN results :
        LET t == results[k].term
        IN /\ t.k = "not" /\ t.x.k \in {"and", "or"}
           /\ t.x.x.k = "or" /\ t.x.y.k = "and"
           /\ results[k].err = ""

\* the literals of a list with the number of times each occurs
BagOf(es) == [e \in Range(es) |-> Cardinality({i \in DOMAIN es : es[i] = e})]

\* the branches of a result, as a set: per branch its positive literals and
\* its negated literals
BranchSet(gs) == {[pos |-> BagOf(gs[i].pos), neg |-> gs[i].neg] : i \in DOMAIN gs}

\* the error and the branches of a compile call
Branching(err, gs) == [err |-> err, branches |-> BranchSet(gs)]

\* the branches of compiling the expression t, built afresh, by a fresh compiler
FreshBranches(t) ==
    LET b == Build(<<>>, t)
    IN Branching(compile(b.h, NewQueryCompiler, b.r).err,
                 compile(b.h, NewQueryCompiler, b.r).groups)

\* the branch of the conjunction of the literals x and y: a bare neq is an
\* omitted eq, any other literal is positive
LiteralBranch(x, y) ==
    [pos |-> SelectSeq(<<x, y>>, LAMBDA e : ~(IsFindOp(e) /\ e.op = "neq")),
     neg |-> {WithOp(e, "eq") :
                e \in {l \in {x, y} : IsFindOp(l) /\ l.op = "neq"}}]

IsDistributive(t) == t.k = "and" /\ t.x.k = "or"

OverLiterals(t) == t.x.x.k = "lit" /\ t.x.y.k = "lit" /\ t.y.k = "lit"

\* and(or(a, b), c) compiles to the branches of or(and(a, c), and(b, c))
SameBranchesAsDistributed(r) ==
    Branching(r.err, r.groups)
        = FreshBranches(Or(And(r.term.x.x, r.term.y), And(r.term.x.y, r.term.y)))

C10_IdentifiersAndParams ==
    \A k \in DOMAIN results :
        results[k].err = "" =>
            /\ \A n \in DOMAIN results[k].ids : results[k].ids[n] = "q" \o ToString(n)
            /\ \A n \in DOMAIN results[k].ids :
                    Occurrences(results[k].ids[n], results[k].query) = 1
            /\ DOMAIN results[k].params = ParamKeys(results[k].ids)


\* the number of identifiers emitted by the branches before branch i
RECURSIVE IdsBefore(_, _)
IdsBefore(gs, i) ==
    IF i = 1 THEN 0
    ELSE IdsBefore(gs, i - 1) + Len(gs[i - 1].pos) + Cardinality(gs[i - 1].neg)

\* the identifiers of the positive and of the negated literals of branch i
PosIdsOf(r, i) ==
    SubSeq(r.ids, IdsBefore(r.groups, i) + 1, IdsBefore(r.groups, i) + Len(r.groups[i].pos))

NegIdsOf(r, i) ==
    SubSeq(r.ids, IdsBefore(r.groups, i) + Len(r.groups[i].pos) + 1,
           IdsBefore(r.groups, i + 1))

\* the terms of branch i: its parenthesized positive list, if it has one, then
\* one omit term per negated identifier
TermsOf(r, i) ==
    (IF PosIdsOf(r, i) # <<>> THEN <<"(" \o Join(",", PosIdsOf(r, i)) \o ")">> ELSE <<>>)
    \o [n \in DOMAIN NegIdsOf(r, i) |-> "!(" \o NegIdsOf(r, i)[n] \o ")"]

\* the branches that emit something
NonEmpty(r) == SelectSeq([i \in DOMAIN r.groups |-> TermsOf(r, i)], LAMBDA ts : ts # <<>>)

\* how often the character ch occurs in s
CountChar(s, ch) == Cardinality({i \in 1..Len(s) : SubSeq(s, i, i) = ch})

\* C11 as stated: the directive string is branch (";" branch)* where a branch
\* is its positive list directly followed by its omit terms, so that n
\* non-empty branches give n segments.
C11_SemicolonOnlyBetweenBranches ==
    \A k \in DOMAIN results :
        results[k].err = "" =>
            /\ results[k].query =
                    Join(";", [i \in DOMAIN NonEmpty(results[k]) |->
                                    Join("", NonEmpty(results[k])[i])])
            /\ NonEmpty(results[k]) # <<>> =>
                    CountChar(results[k].query, ";") + 1 = Len(NonEmpty(results[k]))

\* C11 amended: the directive string lists, branch by branch, the positive
\* list of the branch and then one omit term per negated identifier, and ";"
\* separates every term, inside a branch as well as between branches.
C11_SemicolonBetweenTerms ==
    \A k \in DOMAIN results :
        results[k].err = "" =>
            /\ results[k].query = Join(";", Flat(NonEmpty(results[k])))
            /\ Flat(NonEmpty(results[k])) # <<>> =>
                    CountChar(results[k].query, ";") + 1 = Len(Flat(NonEmpty(results[k])))

\* a branch with a positive list and two omit terms was emitted before a
\* second branch
C11_Witness ==
    \E k \in DOMAIN results :
        /\ results[k].err = ""
        /\ Len(results[k].groups) = 2
        /\ Len(TermsOf(results[k], 1)) = 3
        /\ PosIdsOf(results[k], 1) # <<>>
        /\ TermsOf(results[k], 2) # <<>>
        /\ results[k].query = "(q1);!(q2);!(q3);(q4);!(q5)"


\* the sizes of the negated sets that occur among the groups
NegSizes(gs) == {Cardinality(gs[i].neg) : i \in DOMAIN gs}

\* A | (B & !C) with C a literal whose negation stays an omit
ReorderedNegation ==
    {Or(Lit(a), And(Lit(b), Not(Lit(c)))) :
        a \in {LitG, LitC}, b \in {LitG, LitC}, c \in Omitted}

\* C12: the branches are emitted by descending size of the negated set, the
\* branches of one size in the order the DNF gave them; A | (B & !C) emits the
\* branch (B, !C) before the branch (A).
C12_DescendingStableOrder ==
    \A k \in DOMAIN results :
        results[k].err = "" =>
            LET gs == results[k].groups
                ds == results[k].discovered
                t == results[k].term
            IN /\ \A i \in 1..(Len(gs) - 1) :
                        Cardinality(gs[i].neg) >= Cardinality(gs[i + 1].neg)
               /\ \A n \in NegSizes(gs) \cup NegSizes(ds) :
                        GroupsOfSize(gs, n) = GroupsOfSize(ds, n)
               /\ t \in ReorderedNegation =>
                        gs = <<[pos |-> <<t.y.x.e>>, neg |-> {t.y.y.x.e}],
                               [pos |-> <<t.x.e>>, neg |-> {}]>>

\* three branches were found with 0, 1 and 0 negated literals, the first and
\* the last different: the middle one was emitted first, the others in order
C12_Witness ==
    \E k \in DOMAIN results :
        LET gs == results[k].groups
            ds == results[k].discovered
        IN /\ results[k].err = ""
           /\ Len(ds) = 3
           /\ ds[1].neg = {} /\ ds[3].neg = {} /\ Cardinality(ds[2].neg) = 1
           /\ ds[1] # ds[3]
           /\ gs = <<ds[2], ds[1], ds[3]>>


\* the field name and the value string that a literal is emitted with
WireOf(e) ==
    IF IsFindOp(e) THEN <<e.lhs.name, op_format(e.op, to_filemaker(e.lhs, e.rhs))>>
    ELSE <<e.field.name, e.query>>

\* the field name and the value string that the mapping holds for an identifier
WireAt(params, id) == <<params["-" \o id], params["-" \o id \o ".value"]>>

\* (A & !B & !C) | (D & !B): the second branch repeats an omit of the first
SubsetNegation ==
    {Or(And(And(a, Not(Lit(p[1]))), Not(Lit(p[2]))), And(d, Not(Lit(p[1])))) :
        a \in {Lit(LitG), Lit(LitC)}, d \in {Lit(LitG), Lit(LitC)}, p \in OmittedPairs}

\* C13: every branch emits each of its negated literals under an identifier of
\* its own, whether or not an earlier branch emitted an equal literal; for
\* (A & !B & !C) | (D & !B) the omit of B is emitted in both branches.
C13_EveryBranchEmitsItsOmits ==
    \A k \in DOMAIN results :
        results[k].err = "" =>
            LET r == results[k]
            IN /\ Len(r.ids) = IdsBefore(r.groups, Len(r.groups) + 1)
               /\ \A m, n \in DOMAIN r.ids : m # n => r.ids[m] # r.ids[n]
               /\ \A i \in DOMAIN r.groups :
                    /\ Len(NegIdsOf(r, i)) = Cardinality(r.groups[i].neg)
                    /\ {WireAt(r.params, NegIdsOf(r, i)[n]) : n \in DOMAIN NegIdsOf(r, i)}
                            = {WireOf(e) : e \in r.groups[i].neg}
                    /\ \A n \in DOMAIN NegIdsOf(r, i) :
                            Occurrences(NegIdsOf(r, i)[n], r.query) = 1
               /\ r.term \in SubsetNegation =>
                    /\ r.query = "(q1);!(q2);!(q3);(q4);!(q5)"
                    /\ WireAt(r.params, "q5") = WireOf(r.term.y.y.x.e)
                    /\ WireAt(r.params, "q5") \in {WireAt(r.params, "q2"), WireAt(r.params, "q3")}

\* (A & !B & !C) | (D & !B) was compiled: the omit of B has one identifier in
\* the first branch and another in the second
C13_Witness ==
    \E k \in DOMAIN results :
        /\ results[k].term \in SubsetNegation
        /\ results[k].err = ""
        /\ Len(results[k].ids) = 5
        /\ results[k].groups[2].neg \subseteq results[k].groups[1].neg
        /\ Cardinality(results[k].groups[2].neg) = 1
        /\ WireAt(results[k].params, "q5") = WireOf(LitR)


\* the literals that occur in an expression as written
RECURSIVE LiteralsOf(_)
LiteralsOf(term) ==
    CASE term.k = "lit" -> {term.e}
      [] term.k = "group" -> {}
      [] term.k = "not" -> LiteralsOf(term.x)
      [] OTHER -> LiteralsOf(term.x) \cup LiteralsOf(term.y)

Unsupported == "Unsupported operator"

\* C14: a comparison with an operator token outside eq, neq, gt, gte, lt, lte,
\* cn, bw, ew cannot be constructed, so no compiled expression holds one and
\* no compile call fails for an unsupported operator.
C14_OperatorRejectedAtConstruction ==
    \A k \in DOMAIN results :
        /\ \A e \in LiteralsOf(results[k].term) : IsFindOp(e) => e.op \in OP_T
        /\ results[k].err # Unsupported


\* C15: whatever the interleaving of the compile calls of several threads,
\* each call returns the directive string and the mapping that the same
\* expression gives when it is compiled alone.
C15_ConcurrentAsAlone ==
    \A k \in DOMAIN results : Outcome(results[k]) = FreshOutcome(results[k].term)


\* the top-level branches of a tree in disjunctive normal form
TopBranches(tree) ==
    IF IsQ(tree) /\ tree.connector = OR /\ ~tree.negated THEN tree.children ELSE <<tree>>

\* a negated group around one literal
IsWrapper(n) == IsQ(n) /\ n.negated /\ Len(n.children) = 1 /\ ~IsQ(n.children[1])

\* the literals that a branch holds negated, and those that it holds bare
NegatedIn(branch) ==
    IF IsWrapper(branch) THEN {branch.children[1]}
    ELSE IF IsQ(branch) /\ ~branch.negated
    THEN {branch.children[i].children[1] :
            i \in {j \in DOMAIN branch.children : IsWrapper(branch.children[j])}}
    ELSE {}

BareIn(branch) ==
    IF ~IsQ(branch) THEN {branch}
    ELSE IF ~branch.negated
    THEN {branch.children[i] : i \in {j \in DOMAIN branch.children : ~IsQ(branch.children[j])}}
    ELSE {}

\* the operator inverse table
InverseTable == [neq |-> "eq", gt |-> "lte", gte |-> "lt", lt |-> "gte", lte |-> "gt"]

HasInverse(e) == IsFindOp(e) /\ e.op \in DOMAIN InverseTable

Inverted(e) == WithOp(e, InverseTable[e.op])

\* C16: in every branch of the DNF, a branch that is one negated literal
\* included, a negated comparison with an inverse is in the positive list with
\* the inverse operator, a negated comparison without inverse or a negated raw
\* fragment is in the negated set, and no negated literal is in the positive
\* list with its own operator.
C16_NegatedLiteralsHandledAsNegations ==
    \A k \in DOMAIN results :
        results[k].discovered # <<>> =>
            LET bs == TopBranches(results[k].dnf)
                gs == results[k].discovered
            IN /\ Len(gs) = Len(bs)
               /\ \A i \in DOMAIN bs :
                    \A x \in NegatedIn(bs[i]) :
                        /\ HasInverse(x) => Inverted(x) \in Range(gs[i].pos)
                        /\ ~HasInverse(x) => x \in gs[i].neg
                        /\ x \in Range(gs[i].pos) =>
                                x \in BareIn(bs[i])
                                        \cup {Inverted(y) : y \in {z \in NegatedIn(bs[i]) : HasInverse(z)}}


\* the groups of a tree: the root, if it is a group, and all groups below it
RECURSIVE GroupsIn(_)
GroupsIn(tree) ==
    IF ~IsQ(tree) THEN {}
    ELSE {tree} \cup UNION {GroupsIn(tree.children[i]) : i \in DOMAIN tree.children}

HasGroupChild(n) == \E i \in DOMAIN n.children : IsQ(n.children[i])

\* C17: in the tree that push_negations returns, a negated group has a single
\* child and that child is a literal; the root and every group with a group
\* child are not negated.
C17_NegationsAtTheLeaves ==
    \A k \in DOMAIN staged :
        staged[k].stage = "push_negations" =>
            /\ \A n \in GroupsIn(staged[k].tree) : n.negated => IsWrapper(n)
            /\ IsQ(staged[k].tree) => ~staged[k].tree.negated
            /\ \A n \in GroupsIn(staged[k].tree) : HasGroupChild(n) => ~n.negated

\* push_negations was applied to a negated conjunction of a disjunction and a
\* conjunction that holds a negated literal: the result has wrappers two
\* levels below its root
C17_Witness ==
    \E k \in DOMAIN staged :
        /\ staged[k].stage = "push_negations"
        /\ staged[k].term = Not(And(Or(Lit(LitA), Lit(LitG)), And(Lit(LitG), Not(Lit(LitR)))))
        /\ staged[k].tree.connector = OR
        /\ \E n \in GroupsIn(staged[k].tree) : IsWrapper(n)
        /\ \E n \in GroupsIn(staged[k].tree) :
                n # staged[k].tree /\ HasGroupChild(n) /\ n.connector = AND


\* a non-negated AND group whose children are literals or negated wrappers
IsFlatConjunction(n) ==
    /\ IsQ(n) /\ n.connector = AND /\ ~n.negated
    /\ \A i \in DOMAIN n.children : ~IsQ(n.children[i]) \/ IsWrapper(n.children[i])

\* no OR group below an AND group
NoOrBelowAnd(tree) ==
    \A n \in GroupsIn(tree) :
        n.connector = AND => \A m \in GroupsIn(n) \ {n} : m.connector # OR

\* no non-negated group has a non-negated child group with its own connector
NothingLeftToMerge(tree) ==
    \A n \in GroupsIn(tree) :
        ~n.negated =>
            \A i \in DOMAIN n.children :
                IsQ(n.children[i]) =>
                    n.children[i].negated \/ n.children[i].connector # n.connector

\* C18: the tree that to_dnf returns is in disjunctive normal form: no OR group
\* below an AND group, nothing left to merge, and every top-level branch is a
\* literal or a flat AND group of literals and negated wrappers.
C18_ToDnfGivesNormalForm ==
    \A k \in DOMAIN staged :
        staged[k].stage = "to_dnf" =>
            /\ NoOrBelowAnd(staged[k].tree)
            /\ NothingLeftToMerge(staged[k].tree)
            /\ \A i \in DOMAIN TopBranches(staged[k].tree) :
                    \/ ~IsQ(TopBranches(staged[k].tree)[i])
                    \/ IsFlatConjunction(TopBranches(staged[k].tree)[i])


IsNeq(e) == IsFindOp(e) /\ e.op = "neq"

\* the eq comparison on the field and the value of a comparison
EqOf(e) == WithOp(e, "eq")

\* C19: a bare neq comparison of a branch is in the negated set of the branch
\* as the eq comparison on its field and value, no neq comparison is in a
\* positive list, and an eq comparison of a negated set is emitted as an omit
\* term whose value is "=" and the value.
C19_BareNeqIsOmittedEq ==
    \A k \in DOMAIN results :
        LET r == results[k]
            bs == TopBranches(r.dnf)
        IN /\ r.discovered # <<>> =>
                \A i \in DOMAIN bs :
                    /\ \A x \in BareIn(bs[i]) : IsNeq(x) => EqOf(x) \in r.discovered[i].neg
                    /\ \A n \in DOMAIN r.discovered[i].pos : ~IsNeq(r.discovered[i].pos[n])
           /\ r.err = "" =>
                \A j \in DOMAIN r.groups :
                    \A e \in r.groups[j].neg :
                        (IsFindOp(e) /\ e.op = "eq") =>
                            \E n \in DOMAIN NegIdsOf(r, j) :
                                /\ WireAt(r.params, NegIdsOf(r, j)[n])
                                        = <<e.lhs.name, "=" \o e.rhs>>
                                /\ "!(" \o NegIdsOf(r, j)[n] \o ")" \in Range(TermsOf(r, j))

\* the inverse table read in both directions
SymmetricTable ==
    [neq |-> "eq", eq |-> "neq", gt |-> "lte", lte |-> "gt", gte |-> "lt", lt |-> "gte"]

\* C20: invert_op follows the table neq<->eq, gt<->lte, gte<->lt read in both
\* directions and returns a comparison on the same field and value, the
\* inverse of an inverse is the original comparison, and cn, bw, ew have no
\* inverse.
C20_InverseTableSymmetric ==
    \A k \in DOMAIN staged :
        LET e == staged[k].expr
        IN /\ e.op \in DOMAIN SymmetricTable =>
                staged[k].inv = WithOp(e, SymmetricTable[e.op])
           /\ e.op \in {"cn", "bw", "ew"} => staged[k].inv = None
           /\ (staged[k].inv # None /\ k + 1 \in DOMAIN staged) => staged[k + 1].inv = e


\* the number of entries of a sequence that satisfy a test
CountOf(es, Test(_)) == Len(SelectSeq(es, Test))

\* the children of a branch that are bare literals and not neq comparisons,
\* and those that are negated wrappers
IsBarePositive(c) == ~IsQ(c) /\ ~IsNeq(c)

\* the literal a child of a branch leaves in the negated set, None if it
\* leaves one in the positive list
OmittedBy(c) ==
    IF IsWrapper(c) THEN (IF HasInverse(c.children[1]) THEN None ELSE c.children[1])
    ELSE IF IsNeq(c) THEN EqOf(c)
    ELSE None

\* the number of negated literals of the branches before branch i
RECURSIVE OmitsBefore(_, _)
OmitsBefore(gs, i) ==
    IF i = 1 THEN 0 ELSE OmitsBefore(gs, i - 1) + Cardinality(gs[i - 1].neg)

\* C21: in a conjunctive branch, every child that is positive (or negated
\* with an inverse) gives its own entry of the positive list, repeated or
\* not, while the negated set has one entry per distinct omitted literal;
\* the directive has one identifier per positive entry and per literal of a
\* negated set and one omit term per literal of a negated set, every positive
\* entry has its own parameters, and every literal of a negated set is the
\* value of exactly one omit identifier of its branch.
C21_OmitsCollapsePositivesKept ==
    \A k \in DOMAIN results :
        LET r == results[k]
            bs == TopBranches(r.dnf)
        IN /\ r.discovered # <<>> =>
                \A i \in DOMAIN bs :
                    (IsQ(bs[i]) /\ ~bs[i].negated) =>
                        /\ Len(r.discovered[i].pos)
                                = CountOf(bs[i].children, LAMBDA c : OmittedBy(c) = None)
                        /\ \A x \in Range(bs[i].children) :
                                IsBarePositive(x) =>
                                    CountOf(r.discovered[i].pos, LAMBDA e : e = x)
                                        >= CountOf(bs[i].children, LAMBDA c : c = x)
                        /\ Cardinality(r.discovered[i].neg)
                                = Cardinality({OmittedBy(c) : c \in Range(bs[i].children)}
                                                    \ {None})
           /\ r.err = "" =>
                /\ CountChar(r.query, "q") = IdsBefore(r.groups, Len(r.groups) + 1)
                /\ CountChar(r.query, "!") = OmitsBefore(r.groups, Len(r.groups) + 1)
                /\ \A j \in DOMAIN r.groups :
                    /\ \A n \in DOMAIN r.groups[j].pos :
                            WireAt(r.params, PosIdsOf(r, j)[n]) = WireOf(r.groups[j].pos[n])
                    /\ \A e \in r.groups[j].neg :
                            Cardinality({n \in DOMAIN NegIdsOf(r, j) :
                                    WireAt(r.params, NegIdsOf(r, j)[n]) = WireOf(e)}) = 1

\* (city contains B) & ~raw & (city contains B) & ~raw was compiled: two
\* positive clauses with the same parameters and one omit term
C21_Witness ==
    \E k \in DOMAIN results :
        /\ results[k].term = And(And(And(Lit(LitC), Not(Lit(LitR))), Lit(LitC)), Not(Lit(LitR)))
        /\ results[k].err = ""
        /\ results[k].query = "(q1,q2);!(q3)"
        /\ WireAt(results[k].params, "q1") = WireAt(results[k].params, "q2")
        /\ results[k].discovered = <<[pos |-> <<LitC, LitC>>, neg |-> {LitR}]>>


\* an operand as the group that _combine works on: a literal is wrapped
AsGroup(x) ==
    IF IsQ(x) THEN x ELSE [t |-> "q", connector |-> AND, negated |-> FALSE, children |-> <<x>>]

\* the group uses the connector and is not negated
Uses(g, connector) == g.connector = connector /\ ~g.negated

NewGroup(connector, children) ==
    [t |-> "q", connector |-> connector, negated |-> FALSE, children |-> children]

HasEmptyGroup(tree) == \E g \in GroupsIn(tree) : g.children = <<>>

\* C23: compiling an expression that contains a group without children
\* raises an error instead of returning a query.
C23_EmptyGroupRejected ==
    \A k \in DOMAIN results :
        HasEmptyGroup(exprs[results[k].expr].tree) => results[k].err # ""


\* C24: after push_negations, distribute or flatten was applied to an
\* expression, the expression has the value it had before the call, and the
\* group the stage returned is an object made by the call.
C24_StagesKeepTheirInput ==
    \A k \in DOMAIN staged :
        staged[k].stage \in {"push_negations", "distribute", "flatten"} =>
            /\ TreeOf(heap, exprs[staged[k].expr].ref) = exprs[staged[k].expr].tree
            /\ staged[k].fresh


\* compile, by a fresh compiler, rejects the expression t although its
\* branches have an ordering that is a superset chain
RejectedThoughOrderable(t) ==
    LET Test(out) == out.err = Unrepresentable /\ ChainOrderExists(out.discovered)
        Built(b) == Test(compile(b.h, NewQueryCompiler, b.r))
    IN Built(Build(<<>>, t))

\* C25 as stated: among the expressions that are compiled there is one that
\* compile rejects although some ordering of its branches is a superset chain.
C25_SomeOrderableExpressionRejected ==
    results # <<>> => \E t \in CompileExprs : RejectedThoughOrderable(t)

\* C25 amended: compile rejects no expression whose branches have an ordering
\* that is a superset chain: when it raises "Cannot represent query", no
\* ordering of the branches it discovered is one, and an expression whose
\* branches can be ordered is emitted in the order of the sort.
C25_NoOrderableExpressionRejected ==
    \A k \in DOMAIN results :
        /\ results[k].err = Unrepresentable => ~ChainOrderExists(results[k].discovered)
        /\ (results[k].err \in {"", Unrepresentable} /\ ChainOrderExists(results[k].discovered)) =>
                /\ results[k].err = ""
                /\ results[k].groups = SortGroups(results[k].discovered)

\* A | (B & !C) was compiled: the discovered order is no chain, the sorted
\* order is, and the call returned
C25_Witness ==
    \E k \in DOMAIN results :
        /\ results[k].term \in ReorderedNegation
        /\ ~SubsetCondition(results[k].discovered)
        /\ ChainOrderExists(results[k].discovered)
        /\ results[k].err = ""
        /\ results[k].groups # results[k].discovered


\* the literals whose encoding is explored: every operator of OP_T and one
\* outside it, on two fields and two values, and two raw fragments
EncodedLits ==
    {FindOpExpression(f, op, v) :
        f \in {NameField, AgeField}, op \in OP_T \cup {"like"}, v \in {"10", "a=b"}}
        \cup {RawFindExpression(CityField, "==B"), RawFindExpression(NameField, "*")}

\* each of them alone, negated beside a positive literal, and beside a raw
\* fragment
EncodeExprs ==
    {Lit(e) : e \in EncodedLits}
        \cup {And(Lit(LitA), Not(Lit(e))) : e \in EncodedLits}
        \cup {And(Lit(e), Lit(LitR)) : e \in EncodedLits}

InitEncode == \E t \in EncodeExprs : InitWith(t)

\* each of these expressions compiled by a compiler of its own
SpecEncode == InitEncode /\ [][NextCompile]_vars

\* the table of operator encodings: what is written before and after the
\* value
EncodingTable ==
    [eq |-> <<"=", "">>, cn |-> <<"*", "*">>, bw |-> <<"", "*">>, ew |-> <<"*", "">>,
     gt |-> <<">", "">>, gte |-> <<">=", "">>, lt |-> <<"<", "">>, lte |-> <<"<=", "">>]

\* the mapping holds for identifier id the field of literal e and the
\* encoding of its value by the table, or the fragment itself
EmittedAs(params, id, e) ==
    /\ params["-" \o id] = (IF IsRaw(e) THEN e.field.name ELSE e.lhs.name)
    /\ IF IsRaw(e) THEN params["-" \o id \o ".value"] = e.query
       ELSE /\ e.op \in DOMAIN EncodingTable
            /\ params["-" \o id \o ".value"]
                    = EncodingTable[e.op][1] \o e.rhs \o EncodingTable[e.op][2]

\* C26: in every returned result, each emitted literal (positive or omitted)
\* has as value string the table's encoding of its operator applied to its
\* value, a raw fragment has its text verbatim, and no emitted comparison
\* has an operator outside the table; a call that meets such an operator
\* returns no value at all.
C26_ValuesFollowEncodingTable ==
    \A k \in DOMAIN results :
        LET r == results[k]
        IN /\ r.err = "" =>
                /\ DOMAIN r.params = ParamKeys(r.ids)
                /\ \A j \in DOMAIN r.groups :
                        /\ \A n \in DOMAIN r.groups[j].pos :
                                EmittedAs(r.params, PosIdsOf(r, j)[n], r.groups[j].pos[n])
                        /\ \A n \in DOMAIN NegIdsOf(r, j) :
                                EmittedAs(r.params, NegIdsOf(r, j)[n],
                                          SortedByRepr(r.groups[j].neg)[n])
           /\ (\E e \in LiteralsOf(r.term) : IsFindOp(e) /\ e.op \notin OP_T) =>
                /\ r.err = "Unsupported operator"
                /\ r.query = ""

\* (name = A) & ~(name begins with 10) was compiled: the omit carries the
\* value "10*", the positive clause "=A"
C26_Witness ==
    \E k \in DOMAIN results :
        /\ results[k].term = And(Lit(LitA), Not(Lit(FindOpExpression(NameField, "bw", "10"))))
        /\ results[k].err = ""
        /\ results[k].query = "(q1);!(q2)"
        /\ results[k].params["-q1.value"] = "=A"
        /\ results[k].params["-q2.value"] = "10*"


\* ---- a compiler used for an accepted and for a rejected expression ----

\* expressions that compile
AcceptedExprs ==
    {Lit(LitA), Or(Lit(LitA), Lit(LitR)), And(Lit(LitG), Not(Lit(LitR))),
     Or(And(Lit(LitA), Not(Lit(LitR))), Lit(LitG)), Not(Or(Lit(LitN), Lit(LitC))),
     And(Lit(LitA), Lit(LitC))}

\* expressions whose branches have no chain order
RejectedExprs ==
    {Or(And(Lit(LitA), Not(Lit(LitR))), And(Lit(LitG), Not(Lit(LitC)))),
     Or(Not(Lit(LitR)), Not(Lit(LitC))),
     Or(Or(And(Lit(LitA), Not(Lit(LitR))), Lit(LitG)), And(Lit(LitN), Not(Lit(LitC))))}

\* the caller holds one expression of each kind
InitReuse ==
    \E a \in AcceptedExprs, b \in RejectedExprs :
        LET Hold(x, y) ==
                /\ heap = y.h
                /\ exprs = <<Held(x, a), [ref |-> y.r, term |-> b, tree |-> TreeOf(y.h, y.r)]>>
            Second(x) == Hold(x, Build(x.h, b))
        IN /\ Second(Build(<<>>, a))
           /\ compilers = <<>>
           /\ results = <<>>
           /\ threads = [n \in 1..MaxThreads |-> Idle]
           /\ staged = <<>>

NextReuse ==
    \/ NewCompiler
    \/ \E c \in DOMAIN compilers, i \in DOMAIN exprs : Compile(c, i)

\* one compiler object compiles both, in any order
SpecReuse == InitReuse /\ [][NextReuse]_vars

\* the compile call of this step, if the step is one: the last result
Rejection(c) ==
    /\ Len(results') = Len(results) + 1
    /\ results'[Len(results')].compiler = c
    /\ results'[Len(results')].err = "Cannot represent query"

\* C27: a compile call that raises "Cannot represent query" leaves the
\* compiler as it was before the call: params has the same keys and values
\* and the identifier counter has the same value.
C27_RejectionLeavesCompilerUnchanged ==
    [][\A c \in DOMAIN compilers :
            Rejection(c) =>
                /\ compilers'[c].params = compilers[c].params
                /\ compilers'[c].counter = compilers[c].counter]_vars

\* a compiler that holds the parameters of an accepted query rejected the
\* second expression: its params are those of the accepted query and its
\* counter is where that call left it
C27_Witness ==
    /\ Len(results) = 2
    /\ results[1].err = "" /\ results[1].query # ""
    /\ results[2].err = "Cannot represent query"
    /\ results[2].compiler = results[1].compiler
    /\ compilers[results[2].compiler].params = results[1].params
    /\ compilers[results[2].compiler].counter = Len(results[1].ids)
    /\ results[1].params # NoParams


\* the identities of the group objects reachable from a reference
RECURSIVE NodesOf(_, _)
NodesOf(h, r) ==
    IF ~IsQ(r) THEN {}
    ELSE {r.id} \cup UNION {NodesOf(h, h[r.id].children[n]) : n \in DOMAIN h[r.id].children}

\* this step is a compile call on exprs[i]
CompileOf(i) ==
    /\ Len(results') = Len(results) + 1
    /\ results'[Len(results')].expr = i

\* C28: a compile call, whether it returns or raises, leaves every group
\* object reachable from its argument with the connector, the negated flag
\* and the children it had before the call.
C28_CompileKeepsArgument ==
    [][\A i \in DOMAIN exprs :
            CompileOf(i) =>
                \A id \in NodesOf(heap, exprs[i].ref) :
                    /\ heap'[id].connector = heap[id].connector
                    /\ heap'[id].negated = heap[id].negated
                    /\ heap'[id].children = heap[id].children]_vars

\* ((A | G) & G) | (N & G), whose first branch is distributed by the call,
\* or the negated ~((A | G) & ~R) was compiled, and the caller's tree has
\* the value it was built with
C28_Witness ==
    /\ results # <<>>
    /\ results[1].term \in {Or(And(Or(Lit(LitA), Lit(LitG)), Lit(LitG)), And(Lit(LitN), Lit(LitG))),
                            Not(And(Or(Lit(LitA), Lit(LitG)), Not(Lit(LitR))))}
    /\ results[1].err = ""
    /\ Cardinality(NodesOf(heap, exprs[1].ref)) >= 3
    /\ TreeOf(heap, exprs[1].ref) = exprs[1].tree


(***************************************************************************)
(* distribute executed call by call: the thread holds its call stack.      *)
(***************************************************************************)
\* others = q.children[:or_child_idx] + q.children[or_child_idx + 1:]
OthersOf(children, or_child_idx) ==
    SubSeq(children, 1, or_child_idx - 1)
        \o SubSeq(children, or_child_idx + 1, Len(children))

\* the locals of one call distribute(q): pc is "enter" at the isinstance
\* test, "children" in the loop that distributes the children and "items" in
\* the loop over the items of the OR child
Frame(q) ==
    [pc |-> "enter", q |-> q, i |-> 1, new_children |-> <<>>,
     or_child |-> None, others |-> <<>>, j |-> 1, new_or_children |-> <<>>]

\* a thread inside distribute with this call stack, innermost call last
Running(stack) == [pc |-> "distribute", stack |-> stack]

Top(t) == threads[t].stack[Len(threads[t].stack)]

SetTop(stack, frame) == [stack EXCEPT ![Len(stack)] = frame]

Pop(stack) == SubSeq(stack, 1, Len(stack) - 1)

\* a return whose value the caller drops, resuming at the call it has just
\* made
ReturnTo_value_dropped(stack, v) ==
    IF stack = <<>> THEN [pc |-> "returned", r |-> v] ELSE Running(stack)

\* return v to the caller whose frame is on top of stack: the caller appends
\* it to the list it is building and goes on with its loop; the outermost
\* call returns to to_dnf
ReturnTo(stack, v) ==
    IF stack = <<>> THEN [pc |-> "returned", r |-> v]
    ELSE LET Resumed(caller) ==
                IF caller.pc = "children"
                THEN [caller EXCEPT !.new_children = Append(@, v), !.i = @ + 1]
                ELSE [caller EXCEPT !.new_or_children = Append(@, v), !.j = @ + 1]
         IN Running(SetTop(stack, Resumed(stack[Len(stack)])))

InDistribute(t, pc) == threads[t].pc = "distribute" /\ Top(t).pc = pc

\* if not isinstance(q, Q): return q
DistributeEnter(t) ==
    /\ InDistribute(t, "enter")
    /\ threads' = [threads EXCEPT ![t] =
            IF ~IsQ(Top(t).q) THEN ReturnTo(Pop(@.stack), Top(t).q)
            ELSE Running(SetTop(@.stack, [Top(t) EXCEPT !.pc = "children"]))]
    /\ UNCHANGED <<heap, exprs, compilers, results, staged>>

\* one child of the list comprehension: a group is distributed by a call of
\* its own, a literal is taken as it is
DistributeChild(t) ==
    /\ InDistribute(t, "children")
    /\ Top(t).i <= Len(heap[Top(t).q.id].children)
    /\ LET child == heap[Top(t).q.id].children[Top(t).i]
       IN threads' = [threads EXCEPT ![t] =
            IF IsQ(child) THEN Running(Append(@.stack, Frame(child)))
            ELSE Running(SetTop(@.stack,
                    [Top(t) EXCEPT !.new_children = Append(@, child), !.i = @ + 1]))]
    /\ UNCHANGED <<heap, exprs, compilers, results, staged>>

\* q.children = new_children, then the scan for an OR child of an AND group:
\* with one the loop over its items begins, without one q is returned
DistributeAssign(t) ==
    /\ InDistribute(t, "children")
    /\ Top(t).i > Len(heap[Top(t).q.id].children)
    /\ LET q == Top(t).q
           children == Top(t).new_children
           Scanned(h1, or_child_idx) ==
                threads' = [threads EXCEPT ![t] =
                    IF or_child_idx # 0
                    THEN Running(SetTop(@.stack,
                            [Top(t) EXCEPT !.pc = "items",
                                           !.or_child = children[or_child_idx],
                                           !.others = OthersOf(children, or_child_idx)]))
                    ELSE ReturnTo(Pop(@.stack), q)]
           Assigned(h1) ==
                /\ heap' = h1
                /\ Scanned(h1, IF h1[q.id].connector = AND
                               THEN FirstOrChild(h1, children, 1) ELSE 0)
       IN Assigned([heap EXCEPT ![q.id].children = children])
    /\ UNCHANGED <<exprs, compilers, results, staged>>

\* new_and = Q(item, *others, _connector=Q.AND); self.distribute(new_and)
DistributeItem(t) ==
    /\ InDistribute(t, "items")
    /\ Top(t).j <= Len(heap[Top(t).or_child.id].children)
    /\ Len(heap) < MaxHeap
    /\ LET Called(new_and) ==
            /\ heap' = new_and.h
            /\ threads' = [threads EXCEPT ![t] = Running(Append(@.stack, Frame(new_and.r)))]
       IN Called(QNew(heap, <<heap[Top(t).or_child.id].children[Top(t).j]>> \o Top(t).others,
                      AND, FALSE))
    /\ UNCHANGED <<exprs, compilers, results, staged>>

\* return Q(*new_or_children, _connector=Q.OR)
DistributeReturnOr(t) ==
    /\ InDistribute(t, "items")
    /\ Top(t).j > Len(heap[Top(t).or_child.id].children)
    /\ Len(heap) < MaxHeap
    /\ LET Made(new_or) ==
            /\ heap' = new_or.h
            /\ threads' = [threads EXCEPT ![t] = ReturnTo(Pop(@.stack), new_or.r)]
       IN Made(QNew(heap, Top(t).new_or_children, OR, FALSE))
    /\ UNCHANGED <<exprs, compilers, results, staged>>

\* the expressions whose distribution is followed: one, two and three OR
\* groups below an AND group, OR groups in OR groups, negated inputs
DistributeExprs ==
    {And(Or(a, b), c) : a, b, c \in Operands}
        \cup {And(Or(a, b), Or(c, d)) : a, b, c, d \in {Lit(LitA), Not(Lit(LitR)),
                                                       Or(Lit(LitG), Lit(LitN))}}
        \cup {Not(Or(And(a, b), And(c, d))) : a, b, c, d \in {Lit(LitA), Not(Lit(LitG))}}
        \cup {And(And(Or(Lit(LitA), Lit(LitG)), Or(Lit(LitN), c)), Or(Lit(LitR), d)) :
                c, d \in {Lit(LitC), And(Lit(LitA), Lit(LitC)), Or(Lit(LitA), Lit(LitC))}}
        \cup {Or(a, b) : a, b \in Operands}

\* compile has called to_dnf, push_negations has returned and thread 1
\* enters distribute with the tree it built
InitDistribute ==
    \E term \in DistributeExprs :
        LET Start(b, pushed) ==
                /\ heap = pushed.h
                /\ exprs = <<Held(b, term)>>
                /\ threads = [n \in 1..MaxThreads |->
                                IF n = 1 THEN Running(<<Frame(pushed.r)>>) ELSE Idle]
            Pushed(b) == Start(b, push_negations(b.h, b.r))
        IN /\ Pushed(Build(<<>>, term))
           /\ compilers = <<>>
           /\ results = <<>>
           /\ staged = <<>>

NextDistribute ==
    \/ \E t \in DOMAIN threads : DistributeEnter(t)
    \/ \E t \in DOMAIN threads : DistributeChild(t)
    \/ \E t \in DOMAIN threads : DistributeAssign(t)
    \/ \E t \in DOMAIN threads : DistributeItem(t)
    \/ \E t \in DOMAIN threads : DistributeReturnOr(t)

\* the interpreter keeps executing the call: a step that can be taken is taken
SpecDistribute == InitDistribute /\ [][NextDistribute]_vars /\ WF_vars(NextDistribute)

\* the tree that the one-step model of distribute gives for an expression
DistributedTree(term) ==
    LET TreeAfter(out) == TreeOf(out.h, out.r)
        Distributed(pushed) == TreeAfter(distribute(pushed.h, pushed.r))
        Pushed(b) == Distributed(push_negations(b.h, b.r))
    IN Pushed(Build(<<>>, term))

\* C29: the distribution of AND over OR that compile runs comes to its end
\* after finitely many calls, and the tree it returns has no OR group below
\* an AND group.
C29_DistributionTerminates ==
    <>(/\ threads[1].pc = "returned"
       /\ NoOrBelowAnd(TreeOf(heap, threads[1].r)))

\* the distribution of (A | G) & (N | (A | C)) & (R | C), which distributes
\* the AND groups it builds twice more, has returned its tree of 12 branches
C29_Witness ==
    /\ threads[1].pc = "returned"
    /\ exprs[1].term = And(And(Or(Lit(LitA), Lit(LitG)), Or(Lit(LitN), Or(Lit(LitA), Lit(LitC)))),
                           Or(Lit(LitR), Lit(LitC)))
    /\ TreeOf(heap, threads[1].r) = DistributedTree(exprs[1].term)
    /\ NoOrBelowAnd(TreeOf(heap, threads[1].r))
    /\ Len(heap) > 30


\* ---- conjunctions that differ in the order of their negated literals ----

\* the operands of the conjunctions: positive literals, negated literals
\* whose negation stays an omit, and "not equal" comparisons
OrderUnits ==
    {Lit(LitG), Lit(LitC), Not(Lit(LitA)), Not(Lit(LitR)), Lit(LitN), Lit(LitT)}

\* items[1] & items[2] & ... as the caller writes it
RECURSIVE Chain(_)
Chain(items) ==
    IF Len(items) = 1 THEN items[1]
    ELSE And(Chain(SubSeq(items, 1, Len(items) - 1)), items[Len(items)])

\* every conjunction of two or three of the operands, in every order and
\* with repetitions
OrderExprs == {Chain(s) : s \in [1..2 -> OrderUnits] \cup [1..3 -> OrderUnits]}

InitOrder == \E t \in OrderExprs : InitWith(t)

\* each conjunction compiled by a compiler of its own
SpecOrder == InitOrder /\ [][NextCompile]_vars

\* the operands of a conjunction in the order in which they were written
RECURSIVE ItemsOf(_)
ItemsOf(t) == IF t.k = "and" THEN Append(ItemsOf(t.x), t.y) ELSE <<t>>

\* an operand written as a negation: ~literal, or a "not equal" comparison
IsNegatedItem(x) == x.k = "not" \/ (x.k = "lit" /\ IsFindOp(x.e) /\ x.e.op = "neq")

PositivesOf(t) == SelectSeq(ItemsOf(t), LAMBDA x : ~IsNegatedItem(x))

NegativesOf(t) == {x \in Range(ItemsOf(t)) : IsNegatedItem(x)}

\* what compile returns for the expression t on a compiler of its own
CompiledAlone(t) ==
    LET Returned(out) == [err |-> out.err, query |-> out.query, params |-> out.c.params]
        Built(b) == Returned(compile(b.h, NewQueryCompiler, b.r))
    IN Built(Build(<<>>, t))

\* C30: a conjunction and any conjunction with the same positive literals in
\* the same order and the same set of negated literals, written in whatever
\* order, compile to the same directive string and the same parameter
\* mapping.
C30_OmitOrderFromSetOnly ==
    \A k \in DOMAIN results :
        \A u \in OrderExprs :
            (/\ PositivesOf(u) = PositivesOf(results[k].term)
             /\ NegativesOf(u) = NegativesOf(results[k].term)) =>
                /\ CompiledAlone(u).err = results[k].err
                /\ CompiledAlone(u).query = results[k].query
                /\ CompiledAlone(u).params = results[k].params

\* G & ~R & ~A was compiled and gives the output of G & ~A & ~R: the omit of
\* the comparison on Name comes before the omit of the raw fragment on City,
\* which was written first
C30_Witness ==
    \E k \in DOMAIN results :
        /\ results[k].term = Chain(<<Lit(LitG), Not(Lit(LitR)), Not(Lit(LitA))>>)
        /\ results[k].query = "(q1);!(q2);!(q3)"
        /\ results[k].params["-q2"] = "Name"
        /\ results[k].params["-q3"] = "City"
        /\ CompiledAlone(Chain(<<Lit(LitG), Not(Lit(LitA)), Not(Lit(LitR))>>)).params
                = results[k].params

====
